---- MODULE Spec2Model ----
(***************************************************************************)
(* Order placement and the order status lifecycle of the hotel food        *)
(* delivery backend (controllers/orderController.js, the order routes and  *)
(* the validation / auth middleware in front of them), with the catalog    *)
(* administration, the reviews and the nearby search that the orders meet  *)
(* (menuController.js, hotelController.js, userController.js).             *)
(*                                                                         *)
(* A request is a process: it starts with the route's middleware and the   *)
(* handler's first database read, and every later await of the handler     *)
(* that touches shared rows is a step of its own, so requests interleave   *)
(* exactly at the handler's suspension points.  Amounts are integer cents. *)
(***************************************************************************)
EXTENDS Integers, Sequences, FiniteSets, TLC

VARIABLES
    hotels,      \* Hotel rows: id -> [isActive, deliveryFee, minOrderAmount]
    menuItems,   \* MenuItem rows: id -> [hotelId, price, isAvailable]
    orders,      \* committed Order rows: id -> row
    orderItems,  \* committed OrderItem rows, in insertion order
    nextOrderId, \* the Order table's autoincrement sequence
    tx,          \* per request: the rows written inside its open transaction
    stripe,      \* payment.js: is the Stripe client configured
    reviews,     \* Review rows, in insertion order
    mailer,      \* emailService.js: what a send attempt runs into
    mail,        \* the outcome of the latest notification that was dispatched
    addresses,   \* Address rows: id -> [userId, isDefault]
    nextAddressId, \* the Address table's autoincrement sequence
    conn,        \* config/database.js testConnection: each call's locals and result
    pc,          \* per request process: where its handler is
    req          \* per request process: the request and the handler's locals

vars == <<hotels, menuItems, orders, orderItems, nextOrderId, tx, stripe, reviews,
          mailer, mail, addresses, nextAddressId, conn, pc, req>>

\* The address book and the start-up connection test: no request handler of
\* the catalog, the orders or the reviews touches them.
sideVars == <<addresses, nextAddressId, conn>>

catalogVars == <<hotels, menuItems, stripe, mailer, sideVars>>

(***************************************************************************)
(* Bounds of the model.                                                    *)
(***************************************************************************)
MaxCart == 2        \* longest cart a request carries
MaxOrders == 1      \* Order ids the placement specification hands out

Procs == {"r1", "r2"}

(***************************************************************************)
(* Users (prisma/seed.js creates an ADMIN and a USER; HOTEL_ADMIN is the   *)
(* third role the routes authorize).                                       *)
(***************************************************************************)
Users == {"u1", "adm", "ha"}

Role(u) ==
    CASE u = "adm" -> "ADMIN"
      [] u = "ha"  -> "HOTEL_ADMIN"
      [] OTHER     -> "USER"

\* JavaScript's undefined, as a value that equals no id (ids are positive).
Undefined == -1
Null == "null"

\* protect: req.user is the user row restricted to the selected columns; hotelId
\* is not among them, so req.user.hotelId reads as undefined.
ReqUser(u) == [id |-> u, role |-> Role(u), hotelId |-> Undefined]

\* authorize(...roles)
Authorize(user, roles) == user.role \in roles

Statuses == {"PENDING", "CONFIRMED", "PREPARING", "OUT_FOR_DELIVERY", "DELIVERED", "CANCELLED"}

\* orderRules.updateStatus: body('status').isIn([...])
UpdateStatusValid(status) == status \in Statuses

PaymentMethods == {"CASH", "CARD", "MOBILE_MONEY"}

(***************************************************************************)
(* Request records.  One shape for every handler; a handler leaves the     *)
(* fields it does not use at their defaults.                               *)
(***************************************************************************)
NoReq ==
    [op |-> "none", caller |-> "none", orderId |-> 0, status |-> "none",
     notes |-> Null, read |-> "none", hotelId |-> 0, cart |-> <<>>,
     fee |-> 0, minimum |-> 0, items |-> <<>>, total |-> 0,
     method |-> "none", number |-> "none", itemId |-> 0, seen |-> FALSE,
     rating |-> 0, avg |-> 0, count |-> 0, latitude |-> 0, longitude |-> 0, radius |-> 0,
     addressId |-> 0, isDefault |-> "absent", wasDefault |-> FALSE, another |-> 0,
     found |-> <<>>, resp |-> "none"]

NoTx == [order |-> <<>>, items |-> <<>>]

\* The calls of testConnection (an exported async function: each call has its
\* own locals), and a call before it is made.  attempts and waits count the
\* $connect calls and the 5 s waits of the call.
ConnCallers == {"c1", "c2"}
NoCall == [pc |-> "idle", retries |-> 0, attempts |-> 0, waits |-> 0, result |-> "none"]
NoConn == [c \in ConnCallers |-> NoCall]

Idle(p) == pc[p] \in {"idle", "done"}

\* Process p moves on to `to`, with request record r.
Goto(p, to, r) ==
    /\ pc' = [pc EXCEPT ![p] = to]
    /\ req' = [req EXCEPT ![p] = r]

\* The response is sent and the handler's locals are gone: what stays of the
\* request is who asked for what, and the response.
Reply(p, r, resp) ==
    Goto(p, "done", [NoReq EXCEPT !.op = r.op, !.caller = r.caller,
                                  !.orderId = r.orderId, !.hotelId = r.hotelId,
                                  !.cart = r.cart, !.method = r.method,
                                  !.resp = resp])

(***************************************************************************)
(* The catalog and the rows createOrder writes.                            *)
(***************************************************************************)
HotelIds == {1, 2}
ItemIds == {1, 2, 3}

\* Hotel 1 is the spec's example hotel (fee 2.99, minimum 10.00); hotel 2 is
\* inactive.  Menu items 1 and 2 are on sale, item 3 is switched off.
\* latitude is the hotel's position as arc length north of the equator, in
\* decimetres; deliveryRadius is in metres; rating is in hundredths of a star.
InitHotels ==
    [h \in HotelIds |->
        IF h = 1 THEN [isActive |-> TRUE, deliveryFee |-> 299, minOrderAmount |-> 1000,
                       latitude |-> 10000, longitude |-> 36, deliveryRadius |-> 5000,
                       rating |-> 0, totalReviews |-> 0]
                 ELSE [isActive |-> FALSE, deliveryFee |-> 0, minOrderAmount |-> 0,
                       latitude |-> 30000, longitude |-> 36, deliveryRadius |-> 5000,
                       rating |-> 0, totalReviews |-> 0]]

InitMenuItems ==
    [m \in ItemIds |->
        CASE m = 1 -> [hotelId |-> 1, price |-> 600, isAvailable |-> TRUE]
          [] m = 2 -> [hotelId |-> 1, price |-> 400, isAvailable |-> TRUE]
          [] OTHER -> [hotelId |-> 1, price |-> 500, isAvailable |-> FALSE]]

\* req.body.deliveryAddress: required by orderRules.create, stored as sent.
DeliveryAddress == "12 Elm Street"

\* NewOrderRow taking a cash order as paid on creation.
NewOrderRowCashPaid(orderNumber, userId, hotelId, totalAmount, paymentMethod) ==
    [orderNumber |-> orderNumber, userId |-> userId, deliveryAddress |-> DeliveryAddress,
     hotelId |-> hotelId, totalAmount |-> totalAmount, status |-> "PENDING",
     paymentMethod |-> paymentMethod,
     paymentStatus |-> IF paymentMethod = "CASH" THEN "PAID" ELSE "PENDING",
     deliveryNotes |-> Null]

\* prisma.order.create({data: {...}}) in createOrder
NewOrderRow(orderNumber, userId, hotelId, totalAmount, paymentMethod) ==
    [orderNumber |-> orderNumber, userId |-> userId, deliveryAddress |-> DeliveryAddress, hotelId |-> hotelId, totalAmount |-> totalAmount,
     status |-> "PENDING", paymentMethod |-> paymentMethod,
     paymentStatus |-> IF paymentMethod = "CASH" THEN "PENDING" ELSE "PENDING",
     deliveryNotes |-> Null]

\* orderItems.map(item => ({orderId: newOrder.id, ...item}))
ItemRows(orderId, items) ==
    [i \in 1..Len(items) |->
        [orderId |-> orderId, menuItemId |-> items[i].menuItemId,
         quantity |-> items[i].quantity, unitPrice |-> items[i].unitPrice,
         subtotal |-> items[i].subtotal]]

\* The OrderItem rows of order o, in insertion order.
ItemsOf(rows, o) == SelectSeq(rows, LAMBDA row: row.orderId = o)

(***************************************************************************)
(* Notifications (utils/emailService.js).  The handlers dispatch them and  *)
(* do not await them; `mail` records how the dispatched notification ends. *)
(***************************************************************************)
MailerStates == {"up", "down", "throws"}

\* sendOrderConfirmation / sendHotelNotification / sendOrderStatusUpdate: the
\* promise resolves true when the transport took the mail, resolves false when
\* sendMail threw (sendEmail catches it), and rejects when building the message
\* throws before sendEmail is reached.
Deliver(m) ==
    CASE m = "up"   -> "sent"
      [] m = "down" -> "failed"
      [] OTHER      -> "rejected"

\* NotificationFails for a notification that is awaited with no .catch: a
\* rejected promise throws in the handler.
NotificationFailsWhenRejected(outcome) == outcome = "rejected"

\* Promise.all([...]).catch(err => console.error(...)) and
\* sendOrderStatusUpdate(...).catch(...): the promise is not awaited and a
\* rejection is logged, so no outcome of a notification reaches the handler.
NotificationFails(outcome) == FALSE

(***************************************************************************)
(* updateOrderStatus: PUT /api/orders/:id/status                           *)
(***************************************************************************)
\* "Check permissions": a HOTEL_ADMIN may only touch orders of his own hotel.
UpdatePermitted(user, order) ==
    ~(user.role = "HOTEL_ADMIN" /\ order.hotelId # user.hotelId)

\* data: { status, ...(deliveryNotes && { deliveryNotes }) }
UpdateData(order, status, notes) ==
    [order EXCEPT !.status = status,
                  !.deliveryNotes = IF notes # Null THEN notes ELSE @]

\* protect, authorize('ADMIN','HOTEL_ADMIN'), validate(orderRules.updateStatus),
\* then the handler up to its second await: findUnique and the permission check.
UpdateOrderStatusStart(p, caller, orderId, status, notes) ==
    /\ Idle(p)
    /\ LET user == ReqUser(caller)
           r == [NoReq EXCEPT !.op = "updateOrderStatus", !.caller = caller,
                              !.orderId = orderId, !.status = status, !.notes = notes]
       IN  IF ~Authorize(user, {"ADMIN", "HOTEL_ADMIN"}) THEN Reply(p, r, "403_role")
           ELSE IF ~UpdateStatusValid(status) THEN Reply(p, r, "400_validation")
           ELSE IF orderId \notin DOMAIN orders THEN Reply(p, r, "404")
           ELSE IF ~UpdatePermitted(user, orders[orderId]) THEN Reply(p, r, "403_hotel")
           ELSE Goto(p, "update_write", [r EXCEPT !.read = orders[orderId].status])
    /\ UNCHANGED <<catalogVars, reviews, mail, orders, orderItems, nextOrderId, tx>>

\* prisma.order.update({where: {id}, data}), the status notification and the
\* 200 response.
UpdateOrderStatusWrite(p) ==
    /\ pc[p] = "update_write"
    /\ LET r == req[p] IN
        /\ orders' = [orders EXCEPT ![r.orderId] = UpdateData(@, r.status, r.notes)]
        /\ mail' = Deliver(mailer)
        /\ IF NotificationFails(mail') THEN Reply(p, r, "500_notification")
                                       ELSE Reply(p, r, "200")
    /\ UNCHANGED <<catalogVars, reviews, orderItems, nextOrderId, tx>>

(***************************************************************************)
(* cancelOrder: PUT /api/orders/:id/cancel                                 *)
(***************************************************************************)
\* CancelFound without the userId condition of its where clause.
CancelFoundAnyUser(order, userId) ==
    order.status \in {"PENDING", "CONFIRMED"}

\* findFirst({where: {id, userId, status: {in: ['PENDING','CONFIRMED']}}})
CancelFound(order, userId) ==
    /\ order.userId = userId
    /\ order.status \in {"PENDING", "CONFIRMED"}

\* CancelData that also takes the refunded amount off the order.
CancelDataZeroingTotal(order) ==
    [order EXCEPT !.status = "CANCELLED", !.paymentStatus = "REFUNDED", !.totalAmount = 0]

\* data: { status: 'CANCELLED', paymentStatus: 'REFUNDED' }
CancelData(order) ==
    [order EXCEPT !.status = "CANCELLED", !.paymentStatus = "REFUNDED"]

\* protect, then the handler up to its second await: the findFirst.
CancelOrderStart(p, caller, orderId) ==
    /\ Idle(p)
    /\ LET r == [NoReq EXCEPT !.op = "cancelOrder", !.caller = caller, !.orderId = orderId]
       IN  IF orderId \in DOMAIN orders /\ CancelFound(orders[orderId], ReqUser(caller).id)
           THEN Goto(p, "cancel_write", [r EXCEPT !.read = orders[orderId].status])
           ELSE Reply(p, r, "404")
    /\ UNCHANGED <<catalogVars, reviews, mail, orders, orderItems, nextOrderId, tx>>

\* prisma.order.update({where: {id}, data}) and the 200 response.
CancelOrderWrite(p) ==
    /\ pc[p] = "cancel_write"
    /\ LET r == req[p] IN
        /\ orders' = [orders EXCEPT ![r.orderId] = CancelData(@)]
        /\ Reply(p, r, "200")
    /\ UNCHANGED <<catalogVars, reviews, mail, orderItems, nextOrderId, tx>>

(***************************************************************************)
(* The status specification: requests against orders that were placed      *)
(* earlier (each as createOrder commits it: PENDING, with its items).      *)
(***************************************************************************)
SeedOrderIds == {1}
OrderIdInputs == SeedOrderIds \cup {2}     \* 2 names no order
StatusInputs == Statuses \cup {"SHIPPED"}
NotesInputs == {Null, "gate B"}
SeedItems == <<[menuItemId |-> 1, quantity |-> 2, unitPrice |-> 600, subtotal |-> 1200]>>

InitStatus ==
    /\ hotels = InitHotels
    /\ menuItems = InitMenuItems
    /\ stripe = TRUE
    /\ reviews = <<>>
    /\ addresses = <<>>
    /\ nextAddressId = 1
    /\ conn = NoConn
    /\ mailer = "up"
    /\ mail = "sent"                  \* the confirmation of the seeded order
    /\ \E owner \in [SeedOrderIds -> {"u1", "adm"}] :
          orders = [o \in SeedOrderIds |-> NewOrderRow("ORD-A", owner[o], 1, 1499, "CASH")]
    /\ orderItems = [o \in SeedOrderIds |-> ItemRows(o, SeedItems)[1]]
    /\ nextOrderId = 2
    /\ tx = [p \in Procs |-> NoTx]
    /\ pc = [p \in Procs |-> "idle"]
    /\ req = [p \in Procs |-> NoReq]

NextStatus ==
    \E p \in Procs :
        \/ \E c \in Users, o \in OrderIdInputs, s \in StatusInputs, n \in NotesInputs :
              UpdateOrderStatusStart(p, c, o, s, n)
        \/ UpdateOrderStatusWrite(p)
        \/ \E c \in Users, o \in OrderIdInputs : CancelOrderStart(p, c, o)
        \/ CancelOrderWrite(p)

SpecStatus == InitStatus /\ [][NextStatus]_vars

(***************************************************************************)
(* createOrder: POST /api/orders                                           *)
(***************************************************************************)
\* orderRules.create, as far as it constrains the modelled fields: items is an
\* array of at least one line, every quantity is an integer >= 1, and the
\* payment method, when given, is one of the three.
CreateValid(cart, method) ==
    /\ Len(cart) >= 1
    /\ \A i \in 1..Len(cart) : cart[i].quantity >= 1
    /\ method # Null => method \in PaymentMethods

\* const { paymentMethod = 'CASH' } = req.body
MethodOrDefault(method) == IF method = Null THEN "CASH" ELSE method

\* HotelFound with isActive: true missing from the where clause.
HotelFoundIgnoringActive(hs, hotelId) == hotelId \in DOMAIN hs

\* findUnique({where: {id, isActive: true}}): the hotel row, or nothing.
HotelFound(hs, hotelId) == hotelId \in DOMAIN hs /\ hs[hotelId].isActive

\* include: { menuItems: { where: { isAvailable: true } } }: the snapshot of the
\* hotel's menu the handler prices against, id -> price.
HotelMenu(ms, hotelId) ==
    [m \in {i \in DOMAIN ms : ms[i].hotelId = hotelId /\ ms[i].isAvailable} |-> ms[m].price]

\* LineSubtotal forgetting the quantity.
LineSubtotalUnitOnly(price, quantity) == price

\* const subtotal = menuItem.price * item.quantity
LineSubtotal(price, quantity) == price * quantity

\* PriceItems with `continue` in place of the 400 for a line whose item is not
\* in the menu: the line is dropped and the loop goes on.
RECURSIVE PriceItemsSkipping(_, _, _, _)
PriceItemsSkipping(cart, i, menu, acc) ==
    IF i > Len(cart) THEN acc
    ELSE LET line == cart[i] IN
         IF line.menuItemId \notin DOMAIN menu THEN PriceItemsSkipping(cart, i + 1, menu, acc)
         ELSE IF line.quantity < 1 THEN [acc EXCEPT !.err = "400_quantity"]
         ELSE LET subtotal == LineSubtotal(menu[line.menuItemId], line.quantity) IN
              PriceItemsSkipping(cart, i + 1, menu,
                  [acc EXCEPT !.total = @ + subtotal,
                              !.items = Append(@, [menuItemId |-> line.menuItemId,
                                                   quantity |-> line.quantity,
                                                   unitPrice |-> menu[line.menuItemId],
                                                   subtotal |-> subtotal])])

\* The for loop over items: it stops at the first line it rejects, otherwise it
\* appends the priced line and adds its subtotal.
RECURSIVE PriceItems(_, _, _, _)
PriceItems(cart, i, menu, acc) ==
    IF i > Len(cart) THEN acc
    ELSE LET line == cart[i] IN
         IF line.menuItemId \notin DOMAIN menu THEN [acc EXCEPT !.err = "400_item"]
         ELSE IF line.quantity < 1 THEN [acc EXCEPT !.err = "400_quantity"]
         ELSE LET subtotal == LineSubtotal(menu[line.menuItemId], line.quantity) IN
              PriceItems(cart, i + 1, menu,
                  [acc EXCEPT !.total = @ + subtotal,
                              !.items = Append(@, [menuItemId |-> line.menuItemId,
                                                   quantity |-> line.quantity,
                                                   unitPrice |-> menu[line.menuItemId],
                                                   subtotal |-> subtotal])])

\* BelowMinimum with the check lost.
BelowMinimumNever(totalAmount, minOrderAmount) == FALSE

\* if (totalAmount < hotel.minOrderAmount) return 400
BelowMinimum(totalAmount, minOrderAmount) == totalAmount < minOrderAmount

\* totalAmount += hotel.deliveryFee
WithDeliveryFee(totalAmount, deliveryFee) == totalAmount + deliveryFee

\* generateOrderNumber(): a date prefix, five random base 36 characters and the
\* last four digits of the millisecond clock.  Nothing in it depends on the
\* orders that exist: it is a draw from the numbers of the day, here two.
OrderNumbers == {"ORD-A", "ORD-B"}

\* protect, validate(orderRules.create), then the handler up to the transaction:
\* the hotel and its menu are read once, the cart is priced against that read,
\* and the order number is generated.
CreateOrderStart(p, caller, hotelId, cart, method) ==
    /\ Idle(p)
    /\ LET r == [NoReq EXCEPT !.op = "createOrder", !.caller = caller,
                              !.hotelId = hotelId, !.cart = cart, !.method = method]
       IN  IF ~CreateValid(cart, method) THEN Reply(p, r, "400_validation")
           ELSE IF ~HotelFound(hotels, hotelId) THEN Reply(p, r, "404")
           ELSE LET hotel == hotels[hotelId]
                    priced == PriceItems(cart, 1, HotelMenu(menuItems, hotelId),
                                         [err |-> "none", items |-> <<>>, total |-> 0])
                IN  IF priced.err # "none" THEN Reply(p, r, priced.err)
                    ELSE IF BelowMinimum(priced.total, hotel.minOrderAmount)
                         THEN Reply(p, r, "400_minimum")
                    ELSE \E n \in OrderNumbers :
                         Goto(p, "tx_order",
                              [r EXCEPT !.method = MethodOrDefault(method),
                                        !.number = n,
                                        !.items = priced.items,
                                        !.fee = hotel.deliveryFee,
                                        !.minimum = hotel.minOrderAmount,
                                        !.total = WithDeliveryFee(priced.total, hotel.deliveryFee)])
    /\ UNCHANGED <<catalogVars, reviews, mail, orders, orderItems, nextOrderId, tx>>

\* OrderNumberTaken with no unique index on orderNumber.
OrderNumberTakenNever(os, n) == FALSE

\* The Order table's unique index on orderNumber: a committed order has the
\* number.
OrderNumberTaken(os, n) == \E o \in DOMAIN os : os[o].orderNumber = n

\* Another request's open transaction has inserted an order with the number.
OrderNumberPending(t, p, n) ==
    \E q \in DOMAIN t \ {p} : t[q].order # <<>> /\ t[q].order[1].row.orderNumber = n

\* TxCreateOrder outside the transaction: order.create on the global client, the
\* row visible at once and not undone by a rollback.
TxCreateOrderNoTx(p) ==
    /\ pc[p] = "tx_order"
    /\ LET r == req[p] IN
        /\ orders' = orders @@ [o \in {nextOrderId} |->
                                   NewOrderRow(r.number, r.caller, r.hotelId, r.total, r.method)]
        /\ nextOrderId' = nextOrderId + 1
        /\ Goto(p, "tx_items", [r EXCEPT !.orderId = nextOrderId])
    /\ UNCHANGED <<catalogVars, reviews, mail, orderItems, tx>>

\* Inside prisma.$transaction: order.create.  The row gets the next id and is
\* visible to this transaction only.  The insert waits while another open
\* transaction holds a row with the same order number, and fails (P2002, which
\* the error handler answers with 409) when a committed order has the number;
\* the sequence value it drew is spent either way.
TxCreateOrder(p) ==
    /\ pc[p] = "tx_order"
    /\ LET r == req[p] IN
        /\ ~OrderNumberPending(tx, p, r.number)
        /\ nextOrderId' = nextOrderId + 1
        /\ IF OrderNumberTaken(orders, r.number)
           THEN /\ tx' = [tx EXCEPT ![p] = NoTx]
                /\ Reply(p, r, "409_duplicate")
           ELSE /\ tx' = [tx EXCEPT ![p].order =
                            <<[id |-> nextOrderId,
                               row |-> NewOrderRow(r.number, r.caller, r.hotelId,
                                                   r.total, r.method)]>>]
                /\ Goto(p, "tx_items", [r EXCEPT !.orderId = nextOrderId])
    /\ UNCHANGED <<catalogVars, reviews, mail, orders, orderItems>>

\* Inside prisma.$transaction: orderItem.createMany.  A line whose menu item
\* has been deleted since the menu was read violates the foreign key (P2003,
\* which the error handler answers with 400) and the transaction rolls back.
TxCreateItems(p) ==
    /\ pc[p] = "tx_items"
    /\ IF \A i \in 1..Len(req[p].items) : req[p].items[i].menuItemId \in DOMAIN menuItems
       THEN /\ tx' = [tx EXCEPT ![p].items = ItemRows(req[p].orderId, req[p].items)]
            /\ Goto(p, "tx_commit", req[p])
       ELSE /\ tx' = [tx EXCEPT ![p] = NoTx]
            /\ Reply(p, req[p], "400_foreign_key")
    /\ UNCHANGED <<catalogVars, reviews, mail, orders, orderItems, nextOrderId>>

\* The transaction callback returns and the transaction commits: its rows
\* become visible together.
TxCommit(p) ==
    /\ pc[p] = "tx_commit"
    /\ orders' = orders @@ [o \in {tx[p].order[i].id : i \in 1..Len(tx[p].order)} |->
                               tx[p].order[1].row]
    /\ orderItems' = orderItems \o tx[p].items
    /\ tx' = [tx EXCEPT ![p] = NoTx]
    /\ Goto(p, "pay", req[p])
    /\ UNCHANGED <<catalogVars, reviews, mail, nextOrderId>>

\* A statement of the transaction throws: the transaction rolls back, the
\* rejection reaches catch (error) { next(error) } and the caller gets the
\* error handler's 500.
TxFail(p) ==
    /\ pc[p] \in {"tx_order", "tx_items", "tx_commit"}
    /\ tx' = [tx EXCEPT ![p] = NoTx]
    /\ Reply(p, req[p], "500_transaction")
    /\ UNCHANGED <<catalogVars, reviews, mail, orders, orderItems, nextOrderId>>

\* createPaymentIntent throws when Stripe is not configured; the cash and the
\* mobile money paths, and a failed intent, return a result object.
PaymentThrows(method, stripeConfigured) == method = "CARD" /\ ~stripeConfigured

\* After the transaction: the two notifications are dispatched, then "Process
\* payment based on method", then res.status(201).
ProcessPayment(p) ==
    /\ pc[p] = "pay"
    /\ mail' = Deliver(mailer)
    /\ IF NotificationFails(mail') THEN Reply(p, req[p], "500_notification")
       ELSE IF PaymentThrows(req[p].method, stripe) THEN Reply(p, req[p], "500_payment")
       ELSE Reply(p, req[p], "201")
    /\ UNCHANGED <<catalogVars, reviews, orders, orderItems, nextOrderId, tx>>

(***************************************************************************)
(* The placement specification: carts against the catalog.                 *)
(***************************************************************************)
\* Cart lines: two that sell (6.00 x 2, 4.00 x 1), a quantity of zero, an item
\* that is switched off, and an id no menu item has.
Lines ==
    { [menuItemId |-> 1, quantity |-> 2], [menuItemId |-> 2, quantity |-> 1],
      [menuItemId |-> 1, quantity |-> 0], [menuItemId |-> 3, quantity |-> 1],
      [menuItemId |-> 4, quantity |-> 1] }

Carts == UNION {[1..n -> Lines] : n \in 0..MaxCart}

GoodCart == <<[menuItemId |-> 1, quantity |-> 2]>>
HotelIdInputs == {1, 2, 3}                  \* 3 names no hotel
MethodInputs == PaymentMethods \cup {"CHEQUE", Null}
Customers == {"u1"}
PlaceProcs == {"r1"}

\* Every cart at the example hotel paid in cash, and the example cart at every
\* hotel id with every payment method.
PlaceInputs ==
    [hotelId : {1}, cart : Carts, method : {"CASH"}]
        \cup [hotelId : HotelIdInputs, cart : {GoodCart}, method : MethodInputs]

InitPlace ==
    /\ hotels = InitHotels
    /\ menuItems = InitMenuItems
    /\ stripe \in BOOLEAN
    /\ reviews = <<>>
    /\ addresses = <<>>
    /\ nextAddressId = 1
    /\ conn = NoConn
    /\ mailer = "up"
    /\ mail = "none"
    /\ orders = <<>>
    /\ orderItems = <<>>
    /\ nextOrderId = 1
    /\ tx = [p \in Procs |-> NoTx]
    /\ pc = [p \in Procs |-> "idle"]
    /\ req = [p \in Procs |-> NoReq]

NextPlace ==
    \E p \in PlaceProcs :
        \/ /\ nextOrderId <= MaxOrders      \* the model stops taking orders here
           /\ \E c \in Customers, in \in PlaceInputs :
                 CreateOrderStart(p, c, in.hotelId, in.cart, in.method)
        \/ TxCreateOrder(p)
        \/ TxCreateItems(p)
        \/ TxCommit(p)
        \/ TxFail(p)
        \/ ProcessPayment(p)

SpecPlace == InitPlace /\ [][NextPlace]_vars

(***************************************************************************)
(* Catalog administration: menuController.js and hotelController.js.       *)
(* Every route is behind protect and authorize('ADMIN', 'HOTEL_ADMIN').    *)
(***************************************************************************)
CatalogRoles == {"ADMIN", "HOTEL_ADMIN"}

\* A foreign key of an OrderItem row points at the menu item: the row of a
\* committed order, or a row an open transaction has inserted.
MenuItemReferenced(rows, id) == \E i \in 1..Len(rows) : rows[i].menuItemId = id

MenuItemPending(t, id) == \E q \in DOMAIN t : MenuItemReferenced(t[q].items, id)

\* toggleMenuItemAvailability up to its second await: findUnique({select:
\* {isAvailable}}), 404 when there is no such item.
ToggleMenuItemAvailabilityStart(p, caller, id) ==
    /\ Idle(p)
    /\ LET r == [NoReq EXCEPT !.op = "toggleMenuItemAvailability", !.caller = caller,
                              !.itemId = id]
       IN  IF ~Authorize(ReqUser(caller), CatalogRoles) THEN Reply(p, r, "403_role")
           ELSE IF id \notin DOMAIN menuItems THEN Reply(p, r, "404")
           ELSE Goto(p, "toggle_write", [r EXCEPT !.seen = menuItems[id].isAvailable])
    /\ UNCHANGED <<catalogVars, reviews, mail, orders, orderItems, nextOrderId, tx>>

\* menuItem.update({data: {isAvailable: !menuItem.isAvailable}}): the negation of
\* what the read saw; P2025 (404) when the item is gone by now.
ToggleMenuItemAvailabilityWrite(p) ==
    /\ pc[p] = "toggle_write"
    /\ LET r == req[p] IN
        IF r.itemId \notin DOMAIN menuItems
        THEN Reply(p, r, "404") /\ UNCHANGED menuItems
        ELSE /\ menuItems' = [menuItems EXCEPT ![r.itemId].isAvailable = ~r.seen]
             /\ Reply(p, r, "200")
    /\ UNCHANGED <<hotels, stripe, mailer, sideVars, reviews, mail, orders, orderItems, nextOrderId, tx>>

\* UpdateMenuItem that also rewrites the unit price of the item's order lines.
UpdateMenuItemRepricingOrders(p, caller, id, price) ==
    /\ Idle(p)
    /\ LET r == [NoReq EXCEPT !.op = "updateMenuItem", !.caller = caller]
       IN  IF ~Authorize(ReqUser(caller), CatalogRoles)
           THEN Reply(p, r, "403_role") /\ UNCHANGED <<menuItems, orderItems>>
           ELSE IF id \notin DOMAIN menuItems
           THEN Reply(p, r, "404") /\ UNCHANGED <<menuItems, orderItems>>
           ELSE /\ menuItems' = [menuItems EXCEPT ![id].price = price]
                /\ orderItems' = [i \in 1..Len(orderItems) |->
                                    IF orderItems[i].menuItemId = id
                                    THEN [orderItems[i] EXCEPT !.unitPrice = price]
                                    ELSE orderItems[i]]
                /\ Reply(p, r, "200")
    /\ UNCHANGED <<hotels, stripe, mailer, sideVars, reviews, mail, orders, nextOrderId, tx>>

\* updateMenuItem with a price in the body and no file: parseFloat, then
\* menuItem.update({where: {id}, data}); P2025 (404) when there is no such item.
UpdateMenuItem(p, caller, id, price) ==
    /\ Idle(p)
    /\ LET r == [NoReq EXCEPT !.op = "updateMenuItem", !.caller = caller]
       IN  IF ~Authorize(ReqUser(caller), CatalogRoles)
           THEN Reply(p, r, "403_role") /\ UNCHANGED menuItems
           ELSE IF id \notin DOMAIN menuItems
           THEN Reply(p, r, "404") /\ UNCHANGED menuItems
           ELSE /\ menuItems' = [menuItems EXCEPT ![id].price = price]
                /\ Reply(p, r, "200")
    /\ UNCHANGED <<hotels, stripe, mailer, sideVars, reviews, mail, orders, orderItems, nextOrderId, tx>>

\* deleteMenuItem: menuItem.delete({where: {id}}).  P2025 (404) when there is no
\* such item; P2003 (400) when an order line references it; the delete waits
\* while an open transaction has inserted a line that references it.
DeleteMenuItem(p, caller, id) ==
    /\ Idle(p)
    /\ ~MenuItemPending(tx, id)
    /\ LET r == [NoReq EXCEPT !.op = "deleteMenuItem", !.caller = caller]
       IN  IF ~Authorize(ReqUser(caller), CatalogRoles)
           THEN Reply(p, r, "403_role") /\ UNCHANGED menuItems
           ELSE IF id \notin DOMAIN menuItems
           THEN Reply(p, r, "404") /\ UNCHANGED menuItems
           ELSE IF MenuItemReferenced(orderItems, id)
           THEN Reply(p, r, "400_foreign_key") /\ UNCHANGED menuItems
           ELSE /\ menuItems' = [m \in DOMAIN menuItems \ {id} |-> menuItems[m]]
                /\ Reply(p, r, "200")
    /\ UNCHANGED <<hotels, stripe, mailer, sideVars, reviews, mail, orders, orderItems, nextOrderId, tx>>

\* updateHotel with deliveryFee and minOrderAmount in the body and no files:
\* parseFloat, then hotel.update({where: {id}, data}); P2025 (404) when there is
\* no such hotel.
UpdateHotel(p, caller, id, deliveryFee, minOrderAmount) ==
    /\ Idle(p)
    /\ LET r == [NoReq EXCEPT !.op = "updateHotel", !.caller = caller]
       IN  IF ~Authorize(ReqUser(caller), CatalogRoles)
           THEN Reply(p, r, "403_role") /\ UNCHANGED hotels
           ELSE IF id \notin DOMAIN hotels
           THEN Reply(p, r, "404") /\ UNCHANGED hotels
           ELSE /\ hotels' = [hotels EXCEPT ![id].deliveryFee = deliveryFee,
                                            ![id].minOrderAmount = minOrderAmount]
                /\ Reply(p, r, "200")
    /\ UNCHANGED <<menuItems, stripe, mailer, sideVars, reviews, mail, orders, orderItems, nextOrderId, tx>>

(***************************************************************************)
(* The catalog specification: one customer placing orders on r1 while an   *)
(* administrator changes the catalog on r2.                                *)
(***************************************************************************)
CatalogCallers == {"adm", "u1"}
CatalogItemInputs == {1, 4}                \* 4 names no menu item
PriceInputs == {600, 650}
FeeInputs == {299, 349}
MinimumInputs == {1000, 1300}

InitCatalog ==
    /\ hotels = InitHotels
    /\ menuItems = InitMenuItems
    /\ stripe = TRUE
    /\ reviews = <<>>
    /\ addresses = <<>>
    /\ nextAddressId = 1
    /\ conn = NoConn
    /\ mailer = "up"
    /\ mail = "none"
    /\ orders = <<>>
    /\ orderItems = <<>>
    /\ nextOrderId = 1
    /\ tx = [p \in Procs |-> NoTx]
    /\ pc = [p \in Procs |-> "idle"]
    /\ req = [p \in Procs |-> NoReq]

NextCatalog ==
    \/ /\ nextOrderId <= MaxOrders
       /\ CreateOrderStart("r1", "u1", 1, GoodCart, "CASH")
    \/ TxCreateOrder("r1")
    \/ TxCreateItems("r1")
    \/ TxCommit("r1")
    \/ TxFail("r1")
    \/ ProcessPayment("r1")
    \/ \E c \in CatalogCallers, m \in CatalogItemInputs :
          ToggleMenuItemAvailabilityStart("r2", c, m)
    \/ ToggleMenuItemAvailabilityWrite("r2")
    \/ \E c \in CatalogCallers, m \in CatalogItemInputs, x \in PriceInputs :
          UpdateMenuItem("r2", c, m, x)
    \/ \E c \in CatalogCallers, m \in CatalogItemInputs : DeleteMenuItem("r2", c, m)
    \/ \E c \in CatalogCallers, f \in FeeInputs, x \in MinimumInputs :
          UpdateHotel("r2", c, 1, f, x)

SpecCatalog == InitCatalog /\ [][NextCatalog]_vars

(***************************************************************************)
(* submitReview: POST /api/users/orders/:orderId/review (protect only).    *)
(* Five awaits, no transaction: every one of them is a step.               *)
(***************************************************************************)
\* Reviewable with status: 'DELIVERED' missing from the where clause.
ReviewableAnyStatus(order, userId) == order.userId = userId

\* order.findFirst({where: {id, userId: req.user.id, status: 'DELIVERED'}})
Reviewable(order, userId) ==
    /\ order.userId = userId
    /\ order.status = "DELIVERED"

\* review.findFirst({where: {orderId, userId}})
ExistingReview(rows, orderId, userId) ==
    \E i \in 1..Len(rows) : rows[i].orderId = orderId /\ rows[i].userId = userId

\* review.create({data: {userId, hotelId: order.hotelId, orderId, rating}})
NewReviewRow(userId, hotelId, orderId, rating) ==
    [userId |-> userId, hotelId |-> hotelId, orderId |-> orderId, rating |-> rating]

RECURSIVE SumRatings(_)
SumRatings(rows) ==
    IF rows = <<>> THEN 0 ELSE Head(rows).rating + SumRatings(Tail(rows))

\* review.aggregate({where: {hotelId}, _avg: {rating: true}, _count: true}), with
\* the `|| 0` of the caller: the mean in hundredths of a star (0 when there is no
\* review) and the number of reviews.
AggregateReviews(rows, hotelId) ==
    LET mine == SelectSeq(rows, LAMBDA row : row.hotelId = hotelId) IN
    [avg |-> IF mine = <<>> THEN 0 ELSE (SumRatings(mine) * 100) \div Len(mine),
     count |-> Len(mine)]

\* The handler up to its second await: the order read and the 404.
SubmitReviewStart(p, caller, orderId, rating) ==
    /\ Idle(p)
    /\ LET r == [NoReq EXCEPT !.op = "submitReview", !.caller = caller,
                              !.orderId = orderId, !.rating = rating]
       IN  IF orderId \in DOMAIN orders /\ Reviewable(orders[orderId], ReqUser(caller).id)
           THEN Goto(p, "review_check", [r EXCEPT !.hotelId = orders[orderId].hotelId])
           ELSE Reply(p, r, "404")
    /\ UNCHANGED <<catalogVars, reviews, mail, orders, orderItems, nextOrderId, tx>>

\* "Check if already reviewed": the review read and the 400.
SubmitReviewCheck(p) ==
    /\ pc[p] = "review_check"
    /\ IF ExistingReview(reviews, req[p].orderId, req[p].caller)
       THEN Reply(p, req[p], "400_reviewed")
       ELSE Goto(p, "review_create", req[p])
    /\ UNCHANGED <<catalogVars, reviews, mail, orders, orderItems, nextOrderId, tx>>

\* review.create
SubmitReviewCreate(p) ==
    /\ pc[p] = "review_create"
    /\ reviews' = Append(reviews, NewReviewRow(req[p].caller, req[p].hotelId,
                                               req[p].orderId, req[p].rating))
    /\ Goto(p, "review_aggregate", req[p])
    /\ UNCHANGED <<catalogVars, mail, orders, orderItems, nextOrderId, tx>>

\* review.aggregate over the hotel's reviews
SubmitReviewAggregate(p) ==
    /\ pc[p] = "review_aggregate"
    /\ LET agg == AggregateReviews(reviews, req[p].hotelId) IN
          Goto(p, "review_hotel", [req[p] EXCEPT !.avg = agg.avg, !.count = agg.count])
    /\ UNCHANGED <<catalogVars, reviews, mail, orders, orderItems, nextOrderId, tx>>

\* hotel.update({data: {rating, totalReviews}}) and the 201 response.
SubmitReviewHotel(p) ==
    /\ pc[p] = "review_hotel"
    /\ hotels' = [hotels EXCEPT ![req[p].hotelId].rating = req[p].avg,
                                ![req[p].hotelId].totalReviews = req[p].count]
    /\ Reply(p, req[p], "201")
    /\ UNCHANGED <<menuItems, stripe, mailer, sideVars, reviews, mail, orders, orderItems, nextOrderId, tx>>

(***************************************************************************)
(* The review specification: reviews of an order that was placed earlier,  *)
(* while an administrator moves the order through its statuses.            *)
(***************************************************************************)
Reviewers == {"u1", "adm"}
RatingInputs == {2, 5}
ReviewStatusInputs == {"DELIVERED", "PREPARING"}

InitReview ==
    /\ hotels = InitHotels
    /\ menuItems = InitMenuItems
    /\ stripe = TRUE
    /\ reviews = <<>>
    /\ addresses = <<>>
    /\ nextAddressId = 1
    /\ conn = NoConn
    /\ mailer = "up"
    /\ mail = "sent"
    /\ orders = [o \in SeedOrderIds |-> NewOrderRow("ORD-A", "u1", 1, 1499, "CASH")]
    /\ orderItems = [o \in SeedOrderIds |-> ItemRows(o, SeedItems)[1]]
    /\ nextOrderId = 2
    /\ tx = [p \in Procs |-> NoTx]
    /\ pc = [p \in Procs |-> "idle"]
    /\ req = [p \in Procs |-> NoReq]

NextReview ==
    \E p \in Procs :
        \/ \E c \in Reviewers, o \in OrderIdInputs, x \in RatingInputs :
              SubmitReviewStart(p, c, o, x)
        \/ SubmitReviewCheck(p)
        \/ SubmitReviewCreate(p)
        \/ SubmitReviewAggregate(p)
        \/ SubmitReviewHotel(p)
        \/ \E o \in SeedOrderIds, s \in ReviewStatusInputs :
              UpdateOrderStatusStart(p, "adm", o, s, Null)
        \/ UpdateOrderStatusWrite(p)

SpecReview == InitReview /\ [][NextReview]_vars

(***************************************************************************)
(* The lifecycle specification: one order from its placement on: the       *)
(* customer places, cancels and reviews it on r1, an administrator updates *)
(* its status on r2, with the mail transport and Stripe in any condition.  *)
(***************************************************************************)
LifeOrderIds == {1}
LifeMethods == {"CASH", "CARD"}

InitLife ==
    /\ hotels = InitHotels
    /\ menuItems = InitMenuItems
    /\ stripe \in BOOLEAN
    /\ reviews = <<>>
    /\ addresses = <<>>
    /\ nextAddressId = 1
    /\ conn = NoConn
    /\ mailer \in MailerStates
    /\ mail = "none"
    /\ orders = <<>>
    /\ orderItems = <<>>
    /\ nextOrderId = 1
    /\ tx = [p \in Procs |-> NoTx]
    /\ pc = [p \in Procs |-> "idle"]
    /\ req = [p \in Procs |-> NoReq]

NextLife ==
    \/ /\ nextOrderId \in LifeOrderIds
       /\ \E x \in LifeMethods : CreateOrderStart("r1", "u1", 1, GoodCart, x)
    \/ TxCreateOrder("r1")
    \/ TxCreateItems("r1")
    \/ TxCommit("r1")
    \/ TxFail("r1")
    \/ ProcessPayment("r1")
    \/ \E o \in LifeOrderIds : CancelOrderStart("r1", "u1", o)
    \/ CancelOrderWrite("r1")
    \/ \E o \in LifeOrderIds, x \in RatingInputs : SubmitReviewStart("r1", "u1", o, x)
    \/ SubmitReviewCheck("r1")
    \/ SubmitReviewCreate("r1")
    \/ SubmitReviewAggregate("r1")
    \/ SubmitReviewHotel("r1")
    \/ \E o \in LifeOrderIds, s \in Statuses, n \in NotesInputs :
          UpdateOrderStatusStart("r2", "adm", o, s, n)
    \/ UpdateOrderStatusWrite("r2")

SpecLife == InitLife /\ [][NextLife]_vars

(***************************************************************************)
(* The order number specification: two customers' requests placing the     *)
(* example order at the same time, their order numbers drawn freely.       *)
(***************************************************************************)
InitNumbers ==
    /\ hotels = InitHotels
    /\ menuItems = InitMenuItems
    /\ stripe = TRUE
    /\ reviews = <<>>
    /\ addresses = <<>>
    /\ nextAddressId = 1
    /\ conn = NoConn
    /\ mailer = "up"
    /\ mail = "none"
    /\ orders = <<>>
    /\ orderItems = <<>>
    /\ nextOrderId = 1
    /\ tx = [p \in Procs |-> NoTx]
    /\ pc = [p \in Procs |-> "idle"]
    /\ req = [p \in Procs |-> NoReq]

NextNumbers ==
    \E p \in Procs :
        \/ /\ nextOrderId <= MaxOrders + 1
           /\ CreateOrderStart(p, "u1", 1, GoodCart, "CASH")
        \/ TxCreateOrder(p)
        \/ TxCreateItems(p)
        \/ TxCommit(p)
        \/ TxFail(p)
        \/ ProcessPayment(p)

SpecNumbers == InitNumbers /\ [][NextNumbers]_vars

(***************************************************************************)
(* getNearbyHotels: GET /api/hotels/nearby (public, validated).            *)
(*                                                                         *)
(* A latitude is the arc length north of the equator in decimetres, so     *)
(* that distances have a fraction of a metre for Math.round to round; a    *)
(* longitude is a whole number of degrees.  Between two points of one      *)
(* meridian the haversine distance of calculateDistance is the arc between *)
(* the two latitudes, and the latitude range of getBoundingBox is the      *)
(* query latitude give or take the search radius.  Near the equator a      *)
(* degree of longitude is 111 km, more than ten times the largest search   *)
(* radius, so the longitude range of getBoundingBox holds the query's      *)
(* meridian and no other whole degree.                                     *)
(***************************************************************************)
Abs(x) == IF x < 0 THEN -x ELSE x

\* 90 degrees of latitude in decimetres of arc (a quarter of the meridian of
\* a sphere of radius 6371000 m), and 180 degrees of longitude.
MaxLatitude == 100075434
MaxLongitude == 180

\* A degree of longitude at the equator, in decimetres.
DegreeOfLongitude == 1111949

\* queryRules.nearbyHotels: latitude is a float from -90 to 90, longitude a
\* float from -180 to 180 (both required); radius, when given, is an integer
\* from 500 to 10000.
NearbyValid(latitude, longitude, radius) ==
    /\ latitude # Undefined /\ latitude >= -MaxLatitude /\ latitude <= MaxLatitude
    /\ longitude # Undefined /\ longitude >= -MaxLongitude /\ longitude <= MaxLongitude
    /\ radius # Undefined => radius >= 500 /\ radius <= 10000

\* CoordinatesGiven testing the parsed numbers, for which 0 is falsy.
CoordinatesGivenAsNumbers(latitude, longitude) ==
    /\ latitude # Undefined /\ latitude # 0
    /\ longitude # Undefined /\ longitude # 0

\* if (!latitude || !longitude): the query values are strings, and the string
\* "0" is truthy; only an absent (or empty) one is refused here.
CoordinatesGiven(latitude, longitude) == latitude # Undefined /\ longitude # Undefined

\* const { radius = 3000 } = req.query
RadiusOrDefault(radius) == IF radius = Undefined THEN 3000 ELSE radius

\* calculateDistance(userLat, userLon, hotel.latitude, hotel.longitude), in
\* decimetres: exact on one meridian, and an upper estimate across meridians
\* (no such pair is ever inside a bounding box).
CalculateDistance(lat1, lon1, lat2, lon2) ==
    Abs(lat2 - lat1) + Abs(lon2 - lon1) * DegreeOfLongitude

\* getBoundingBox and the four conditions of the where clause (radius in
\* metres).  A comparison with a null column is not true in SQL, so a hotel
\* whose latitude or longitude is unset matches no range.
InBoundingBox(userLat, userLon, radius, lat, lon) ==
    /\ lat # Undefined /\ lon # Undefined
    /\ lat >= userLat - radius * 10
    /\ lat <= userLat + radius * 10
    /\ lon = userLon

\* Math.round of a distance in decimetres, to metres.
RoundToMetres(distance) == (distance + 5) \div 10

\* Math.round(distance / 500 * 10 + 20), in minutes.
EstimatedDeliveryTime(distance) == (distance + 250) \div 500 + 20

\* IsDeliverable comparing the rounded distance the response carries.
IsDeliverableRounded(distance, deliveryRadius) == RoundToMetres(distance) <= deliveryRadius

\* const isDeliverable = distance <= hotel.deliveryRadius (metres)
IsDeliverable(distance, deliveryRadius) == distance <= deliveryRadius * 10

\* The hotel ids in the order findMany returns the rows (by id).
RECURSIVE IdsInOrder(_)
IdsInOrder(ids) ==
    IF ids = {} THEN <<>>
    ELSE LET least == CHOOSE i \in ids : \A j \in ids : i <= j
         IN  <<least>> \o IdsInOrder(ids \ {least})

\* What the map callback returns for a hotel it drops (null).
NullEntry == [id |-> Undefined]

\* if (!hotel.latitude || !hotel.longitude): null and 0 are both falsy.
Falsy(x) == x = Undefined \/ x = 0

\* The map callback: null for a hotel whose latitude or longitude is falsy,
\* else the hotel with its rounded distance, isDeliverable and the estimate.
NearbyEntry(hs, id, userLat, userLon) ==
    IF Falsy(hs[id].latitude) \/ Falsy(hs[id].longitude) THEN NullEntry
    ELSE LET distance == CalculateDistance(userLat, userLon,
                                           hs[id].latitude, hs[id].longitude) IN
         [id |-> id, distance |-> RoundToMetres(distance),
          isDeliverable |-> IsDeliverable(distance, hs[id].deliveryRadius),
          estimatedDeliveryTime |-> EstimatedDeliveryTime(distance)]

\* .sort((a, b) => a.distance - b.distance): stable, ascending by the entry's
\* distance.
RECURSIVE InsertByDistance(_, _)
InsertByDistance(sorted, e) ==
    IF sorted = <<>> THEN <<e>>
    ELSE IF e.distance < Head(sorted).distance THEN <<e>> \o sorted
    ELSE <<Head(sorted)>> \o InsertByDistance(Tail(sorted), e)

RECURSIVE SortByDistance(_)
SortByDistance(entries) ==
    IF entries = <<>> THEN <<>>
    ELSE InsertByDistance(SortByDistance(SubSeq(entries, 1, Len(entries) - 1)),
                          entries[Len(entries)])

\* .slice(0, 20)
MaxResults == 20

\* Slice keeping the last n entries instead of the first n.
SliceLast(s, n) == SubSeq(s, IF Len(s) < n THEN 1 ELSE Len(s) - n + 1, Len(s))

Slice(s, n) == SubSeq(s, 1, IF Len(s) < n THEN Len(s) ELSE n)

\* findMany with the where clause, then map / filter / sort / slice.
NearbyHotels(hs, userLat, userLon, radius) ==
    LET rows == SelectSeq(IdsInOrder(DOMAIN hs),
                          LAMBDA id : hs[id].isActive
                                        /\ InBoundingBox(userLat, userLon, radius,
                                                         hs[id].latitude, hs[id].longitude))
        mapped == [i \in 1..Len(rows) |-> NearbyEntry(hs, rows[i], userLat, userLon)]
        kept == SelectSeq(mapped, LAMBDA e : e # NullEntry /\ e.isDeliverable)
    IN  Slice(SortByDistance(kept), MaxResults)

\* validate(queryRules.nearbyHotels), then the handler: one await (findMany).
GetNearbyHotels(p, latitude, longitude, radius) ==
    /\ Idle(p)
    /\ LET r == [NoReq EXCEPT !.op = "getNearbyHotels", !.latitude = latitude,
                              !.longitude = longitude, !.radius = radius]
       IN  IF ~NearbyValid(latitude, longitude, radius)
           THEN Goto(p, "done", [r EXCEPT !.resp = "400_validation"])
           ELSE IF ~CoordinatesGiven(latitude, longitude)
           THEN Goto(p, "done", [r EXCEPT !.resp = "400_validation"])
           ELSE Goto(p, "done",
                     [r EXCEPT !.found = NearbyHotels(hotels, latitude, longitude,
                                                      RadiusOrDefault(radius)),
                               !.resp = "200"])
    /\ UNCHANGED <<catalogVars, reviews, mail, orders, orderItems, nextOrderId, tx>>

(***************************************************************************)
(* The search specification: queries against every catalog of two hotels   *)
(* placed around the query point.                                          *)
(***************************************************************************)
\* Hotel latitudes: unset, on the equator (0), 10 m, 99.6 m, 100.3 m and
\* 100.4 m from the query point on either side of it, and 4.5 km from it.  Hotel
\* longitudes: the query's meridian and the prime meridian.
QueryLatitude == 50000
QueryLongitude == 36
HotelLatitudes == {Undefined, 0, QueryLatitude - 100, QueryLatitude - 996, QueryLatitude + 1003,
                   QueryLatitude + 1004, QueryLatitude + 45000}
HotelLongitudes == {QueryLongitude, 0}
DeliveryRadii == {100, 5000}
QueryLatitudes == {QueryLatitude, 0, Undefined, MaxLatitude + 1}
QueryLongitudes == {QueryLongitude, 0, Undefined, MaxLongitude + 1}
QueryRadii == {Undefined, 499, 5000}

SearchHotelRows ==
    {[isActive |-> a, deliveryFee |-> 299, minOrderAmount |-> 1000, latitude |-> l,
      longitude |-> g, deliveryRadius |-> d, rating |-> 0, totalReviews |-> 0] :
        a \in BOOLEAN, l \in HotelLatitudes, g \in HotelLongitudes, d \in DeliveryRadii}

InitSearch ==
    /\ hotels \in [HotelIds -> SearchHotelRows]
    /\ menuItems = InitMenuItems
    /\ stripe = TRUE
    /\ reviews = <<>>
    /\ addresses = <<>>
    /\ nextAddressId = 1
    /\ conn = NoConn
    /\ mailer = "up"
    /\ mail = "none"
    /\ orders = <<>>
    /\ orderItems = <<>>
    /\ nextOrderId = 1
    /\ tx = [p \in Procs |-> NoTx]
    /\ pc = [p \in Procs |-> "idle"]
    /\ req = [p \in Procs |-> NoReq]

NextSearch ==
    \E l \in QueryLatitudes, g \in QueryLongitudes, x \in QueryRadii :
        GetNearbyHotels("r1", l, g, x)

SpecSearch == InitSearch /\ [][NextSearch]_vars

(***************************************************************************)
(* The crowded search specification: more than twenty hotels on the        *)
(* query's meridian, all inside the bounding box and their own delivery    *)
(* radius, so that slice(0, 20) has something to cut.                      *)
(***************************************************************************)
ManyHotels == 22
ManyHotelIds == 1..ManyHotels

\* The spacing of the hotels along the meridian, in decimetres: 3 makes
\* neighbours share a rounded distance, 100 keeps every distance apart.
Spacings == {3, 100}

\* Hotel id stands `rank` places from the query point; hotel `closed` (none
\* when 0) is inactive.
CrowdedHotels(ascending, spacing, closed) ==
    [id \in ManyHotelIds |->
        [isActive |-> id # closed, deliveryFee |-> 299, minOrderAmount |-> 1000,
         latitude |-> QueryLatitude
                        + spacing * (IF ascending THEN id ELSE ManyHotels + 1 - id),
         longitude |-> QueryLongitude, deliveryRadius |-> 5000,
         rating |-> 0, totalReviews |-> 0]]

InitSearchMany ==
    /\ hotels \in {CrowdedHotels(a, s, c) :
                      a \in BOOLEAN, s \in Spacings, c \in 0..ManyHotels}
    /\ menuItems = InitMenuItems
    /\ stripe = TRUE
    /\ reviews = <<>>
    /\ addresses = <<>>
    /\ nextAddressId = 1
    /\ conn = NoConn
    /\ mailer = "up"
    /\ mail = "none"
    /\ orders = <<>>
    /\ orderItems = <<>>
    /\ nextOrderId = 1
    /\ tx = [p \in Procs |-> NoTx]
    /\ pc = [p \in Procs |-> "idle"]
    /\ req = [p \in Procs |-> NoReq]

NextSearchMany ==
    \E x \in {Undefined, 500} : GetNearbyHotels("r1", QueryLatitude, QueryLongitude, x)

SpecSearchMany == InitSearchMany /\ [][NextSearchMany]_vars

(***************************************************************************)
(* The menus specification: two active hotels, each with a menu of its     *)
(* own; one customer placing orders on r1 while an administrator moves     *)
(* menu items between the hotels on r2.                                    *)
(***************************************************************************)
\* updateMenuItem with a hotelId in a JSON body and no file: updateData is
\* { ...req.body } (no validation rule is attached to the route), and
\* menuItem.update({where: {id}, data}) writes the item's hotelId; P2025 (404)
\* when there is no such item.  The hotelId names a hotel that exists.
MoveMenuItem(p, caller, id, hotelId) ==
    /\ Idle(p)
    /\ hotelId \in DOMAIN hotels
    /\ LET r == [NoReq EXCEPT !.op = "updateMenuItem", !.caller = caller]
       IN  IF ~Authorize(ReqUser(caller), CatalogRoles)
           THEN Reply(p, r, "403_role") /\ UNCHANGED menuItems
           ELSE IF id \notin DOMAIN menuItems
           THEN Reply(p, r, "404") /\ UNCHANGED menuItems
           ELSE /\ menuItems' = [menuItems EXCEPT ![id].hotelId = hotelId]
                /\ Reply(p, r, "200")
    /\ UNCHANGED <<hotels, stripe, mailer, sideVars, reviews, mail, orders, orderItems, nextOrderId, tx>>

\* Hotel 2 is open as well, and menu item 3 is its own (7.00, on sale).
MenusHotels == [InitHotels EXCEPT ![2].isActive = TRUE]
MenusItems == [InitMenuItems EXCEPT ![3] = [hotelId |-> 2, price |-> 700, isAvailable |-> TRUE]]

\* Carts of two of item 1, two of item 3, or both.
MenusCarts ==
    { <<[menuItemId |-> 1, quantity |-> 2]>>, <<[menuItemId |-> 3, quantity |-> 2]>>,
      <<[menuItemId |-> 1, quantity |-> 2], [menuItemId |-> 3, quantity |-> 2]>> }

InitMenus ==
    /\ hotels = MenusHotels
    /\ menuItems = MenusItems
    /\ stripe = TRUE
    /\ reviews = <<>>
    /\ addresses = <<>>
    /\ nextAddressId = 1
    /\ conn = NoConn
    /\ mailer = "up"
    /\ mail = "none"
    /\ orders = <<>>
    /\ orderItems = <<>>
    /\ nextOrderId = 1
    /\ tx = [p \in Procs |-> NoTx]
    /\ pc = [p \in Procs |-> "idle"]
    /\ req = [p \in Procs |-> NoReq]

NextMenus ==
    \/ /\ nextOrderId <= MaxOrders
       /\ \E h \in HotelIds, c \in MenusCarts : CreateOrderStart("r1", "u1", h, c, "CASH")
    \/ TxCreateOrder("r1")
    \/ TxCreateItems("r1")
    \/ TxCommit("r1")
    \/ TxFail("r1")
    \/ ProcessPayment("r1")
    \/ \E c \in CatalogCallers, m \in {1, 3, 4}, h \in HotelIds :
          MoveMenuItem("r2", c, m, h)

SpecMenus == InitMenus /\ [][NextMenus]_vars

(***************************************************************************)
(* The ratings specification: two delivered orders of one customer at one  *)
(* hotel, reviewed at the same time: order 1 on r1 and order 2 on r2.      *)
(***************************************************************************)
RatedOrderIds == {1, 2}

RatedOrder(o) ==
    [NewOrderRow(IF o = 1 THEN "ORD-A" ELSE "ORD-B", "u1", 1, 1499, "CASH")
        EXCEPT !.status = "DELIVERED"]

InitRatings ==
    /\ hotels = InitHotels
    /\ menuItems = InitMenuItems
    /\ stripe = TRUE
    /\ reviews = <<>>
    /\ addresses = <<>>
    /\ nextAddressId = 1
    /\ conn = NoConn
    /\ mailer = "up"
    /\ mail = "sent"
    /\ orders = [o \in RatedOrderIds |-> RatedOrder(o)]
    /\ orderItems = [o \in RatedOrderIds |-> ItemRows(o, SeedItems)[1]]
    /\ nextOrderId = 3
    /\ tx = [p \in Procs |-> NoTx]
    /\ pc = [p \in Procs |-> "idle"]
    /\ req = [p \in Procs |-> NoReq]

NextRatings ==
    \E p \in Procs :
        \/ \E x \in RatingInputs : SubmitReviewStart(p, "u1", IF p = "r1" THEN 1 ELSE 2, x)
        \/ SubmitReviewCheck(p)
        \/ SubmitReviewCreate(p)
        \/ SubmitReviewAggregate(p)
        \/ SubmitReviewHotel(p)

SpecRatings == InitRatings /\ [][NextRatings]_vars

(***************************************************************************)
(* The address book: addUserAddress, updateUserAddress, deleteUserAddress  *)
(* (protect only).  No transaction: every await is a step.  An Address row *)
(* is [userId, isDefault]; isDefault in a request body is "true", "false"  *)
(* or "absent".                                                            *)
(***************************************************************************)
\* What the address handlers leave alone.
shopVars == <<hotels, menuItems, stripe, mailer, mail, reviews, orders, orderItems,
              nextOrderId, tx, conn>>

\* address.updateMany({where: {userId, isDefault: true}, data: {isDefault: false}})
UnsetDefaults(rows, userId) ==
    [a \in DOMAIN rows |->
        IF rows[a].userId = userId /\ rows[a].isDefault
        THEN [rows[a] EXCEPT !.isDefault = FALSE] ELSE rows[a]]

\* address.findFirst({where: {id, userId}})
AddressFound(rows, id, userId) == id \in DOMAIN rows /\ rows[id].userId = userId

\* The rows with one more: address.create.
WithAddress(rows, id, row) ==
    [a \in DOMAIN rows \cup {id} |-> IF a = id THEN row ELSE rows[a]]

\* addUserAddress up to its first await: updateMany when isDefault is set,
\* else address.create and the 201.
AddUserAddressStart(p, caller, isDefault) ==
    /\ Idle(p)
    /\ LET r == [NoReq EXCEPT !.op = "addUserAddress", !.caller = caller,
                              !.isDefault = IF isDefault THEN "true" ELSE "false"]
       IN  IF isDefault
           THEN /\ addresses' = UnsetDefaults(addresses, caller)
                /\ Goto(p, "address_create", r)
                /\ UNCHANGED nextAddressId
           ELSE /\ addresses' = WithAddress(addresses, nextAddressId,
                                            [userId |-> caller, isDefault |-> FALSE])
                /\ nextAddressId' = nextAddressId + 1
                /\ Reply(p, [r EXCEPT !.addressId = nextAddressId], "201")
    /\ UNCHANGED shopVars

\* address.create({data: {userId, ..., isDefault}}) after the updateMany, and
\* the 201.
AddUserAddressCreate(p) ==
    /\ pc[p] = "address_create"
    /\ addresses' = WithAddress(addresses, nextAddressId,
                                [userId |-> req[p].caller, isDefault |-> TRUE])
    /\ nextAddressId' = nextAddressId + 1
    /\ Reply(p, req[p], "201")
    /\ UNCHANGED shopVars

\* updateUserAddress: address.findFirst({where: {id, userId}}) and the 404.
UpdateUserAddressStart(p, caller, id, isDefault) ==
    /\ Idle(p)
    /\ LET r == [NoReq EXCEPT !.op = "updateUserAddress", !.caller = caller,
                              !.addressId = id, !.isDefault = isDefault]
       IN  IF ~AddressFound(addresses, id, caller) THEN Reply(p, r, "404")
           ELSE IF isDefault = "true" THEN Goto(p, "address_unset", r)
           ELSE Goto(p, "address_update", r)
    /\ UNCHANGED <<shopVars, addresses, nextAddressId>>

\* if (isDefault === true) await address.updateMany(...)
UpdateUserAddressUnset(p) ==
    /\ pc[p] = "address_unset"
    /\ addresses' = UnsetDefaults(addresses, req[p].caller)
    /\ Goto(p, "address_update", req[p])
    /\ UNCHANGED <<shopVars, nextAddressId>>

\* address.update({where: {id}, data: updateData}) and the 200; isDefault is in
\* updateData when the body had it.  P2025 (404) when the row is gone.
UpdateUserAddressWrite(p) ==
    /\ pc[p] = "address_update"
    /\ LET r == req[p] IN
       IF r.addressId \notin DOMAIN addresses
       THEN Reply(p, r, "404") /\ UNCHANGED addresses
       ELSE /\ addresses' = [addresses EXCEPT ![r.addressId].isDefault =
                                IF r.isDefault = "absent" THEN @ ELSE r.isDefault = "true"]
            /\ Reply(p, r, "200")
    /\ UNCHANGED <<shopVars, nextAddressId>>

\* deleteUserAddress: address.findFirst({where: {id, userId}}) and the 404; the
\* handler keeps the row it read.
DeleteUserAddressStart(p, caller, id) ==
    /\ Idle(p)
    /\ LET r == [NoReq EXCEPT !.op = "deleteUserAddress", !.caller = caller,
                              !.addressId = id]
       IN  IF ~AddressFound(addresses, id, caller) THEN Reply(p, r, "404")
           ELSE Goto(p, "address_delete",
                     [r EXCEPT !.wasDefault = addresses[id].isDefault])
    /\ UNCHANGED <<shopVars, addresses, nextAddressId>>

\* address.delete({where: {id}}); P2025 (404) when the row is gone.  The 200
\* follows at once when the row read was not the default.
DeleteUserAddressDelete(p) ==
    /\ pc[p] = "address_delete"
    /\ LET r == req[p] IN
       IF r.addressId \notin DOMAIN addresses
       THEN Reply(p, r, "404") /\ UNCHANGED addresses
       ELSE /\ addresses' = [a \in DOMAIN addresses \ {r.addressId} |-> addresses[a]]
            /\ IF r.wasDefault THEN Goto(p, "address_find", r)
                               ELSE Reply(p, r, "200")
    /\ UNCHANGED <<shopVars, nextAddressId>>

\* anotherAddress = address.findFirst({where: {userId}}): no orderBy, so any row
\* of the user; the 200 when there is none.
DeleteUserAddressFind(p) ==
    /\ pc[p] = "address_find"
    /\ LET r == req[p]
           mine == {a \in DOMAIN addresses : addresses[a].userId = r.caller}
       IN  IF mine = {} THEN Reply(p, r, "200")
           ELSE \E another \in mine :
                   Goto(p, "address_promote", [r EXCEPT !.another = another])
    /\ UNCHANGED <<shopVars, addresses, nextAddressId>>

\* address.update({where: {id: anotherAddress.id}, data: {isDefault: true}}) and
\* the 200; P2025 (404) when that row is gone.
DeleteUserAddressPromote(p) ==
    /\ pc[p] = "address_promote"
    /\ LET r == req[p] IN
       IF r.another \notin DOMAIN addresses
       THEN Reply(p, r, "404") /\ UNCHANGED addresses
       ELSE /\ addresses' = [addresses EXCEPT ![r.another].isDefault = TRUE]
            /\ Reply(p, r, "200")
    /\ UNCHANGED <<shopVars, nextAddressId>>

(***************************************************************************)
(* The address specification: one user working on the address book from   *)
(* two requests at a time.                                                 *)
(***************************************************************************)
MaxAddresses == 2
AddressIdInputs == 1..MaxAddresses + 1     \* the last names no address
DefaultInputs == {"true", "false", "absent"}

InitAddresses ==
    /\ hotels = InitHotels
    /\ menuItems = InitMenuItems
    /\ stripe = TRUE
    /\ reviews = <<>>
    /\ addresses = <<>>
    /\ nextAddressId = 1
    /\ conn = NoConn
    /\ mailer = "up"
    /\ mail = "none"
    /\ orders = <<>>
    /\ orderItems = <<>>
    /\ nextOrderId = 1
    /\ tx = [p \in Procs |-> NoTx]
    /\ pc = [p \in Procs |-> "idle"]
    /\ req = [p \in Procs |-> NoReq]

NextAddresses ==
    \E p \in Procs :
        \/ /\ nextAddressId + Cardinality({q \in Procs : pc[q] = "address_create"})
                <= MaxAddresses
           /\ \E d \in BOOLEAN : AddUserAddressStart(p, "u1", d)
        \/ AddUserAddressCreate(p)
        \/ \E a \in AddressIdInputs, d \in DefaultInputs :
              UpdateUserAddressStart(p, "u1", a, d)
        \/ UpdateUserAddressUnset(p)
        \/ UpdateUserAddressWrite(p)
        \/ \E a \in AddressIdInputs : DeleteUserAddressStart(p, "u1", a)
        \/ DeleteUserAddressDelete(p)
        \/ DeleteUserAddressFind(p)
        \/ DeleteUserAddressPromote(p)

SpecAddresses == InitAddresses /\ [][NextAddresses]_vars

(***************************************************************************)
(* testConnection (config/database.js): up to five $connect attempts, 5 s  *)
(* apart.  Each await is a step; whether $connect resolves or rejects is   *)
(* the database's choice.                                                  *)
(***************************************************************************)
\* What testConnection leaves alone.
appVars == <<hotels, menuItems, stripe, mailer, mail, reviews, orders, orderItems,
             nextOrderId, tx, addresses, nextAddressId, pc, req>>

\* let retries = 5
Retries == 5

\* let retries = 5; while (retries) { try { await prisma.$connect()
TestConnectionCall(c) ==
    /\ conn[c].pc = "idle"
    /\ conn' = [conn EXCEPT ![c] = [NoCall EXCEPT !.retries = Retries,
                                       !.pc = IF Retries # 0 THEN "connect" ELSE "returned",
                                       !.result = IF Retries # 0 THEN "none" ELSE "undefined"]]
    /\ UNCHANGED appVars

\* $connect resolves: return true.
ConnectResolves(c) ==
    /\ conn[c].pc = "connect"
    /\ conn' = [conn EXCEPT ![c].attempts = @ + 1, ![c].pc = "returned",
                            ![c].result = "true"]
    /\ UNCHANGED appVars

\* ConnectRejects that waits before it looks at retries: after the last
\* failure it sleeps, and the loop then ends without a return.
ConnectRejectsThenWaits(c) ==
    /\ conn[c].pc = "connect"
    /\ conn' = [conn EXCEPT ![c].attempts = @ + 1, ![c].retries = @ - 1, ![c].pc = "wait"]
    /\ UNCHANGED appVars

\* $connect rejects: retries -= 1; return false when none is left, else start
\* the 5 s wait.
ConnectRejects(c) ==
    /\ conn[c].pc = "connect"
    /\ IF conn[c].retries - 1 = 0
       THEN conn' = [conn EXCEPT ![c].attempts = @ + 1, ![c].retries = @ - 1,
                                 ![c].pc = "returned", ![c].result = "false"]
       ELSE conn' = [conn EXCEPT ![c].attempts = @ + 1, ![c].retries = @ - 1,
                                 ![c].pc = "wait"]
    /\ UNCHANGED appVars

\* The timer fires and the loop condition is tested: the next attempt while
\* retries is not 0; a loop that ends falls off the function (undefined).
WaitElapses(c) ==
    /\ conn[c].pc = "wait"
    /\ IF conn[c].retries # 0
       THEN conn' = [conn EXCEPT ![c].waits = @ + 1, ![c].pc = "connect"]
       ELSE conn' = [conn EXCEPT ![c].waits = @ + 1, ![c].pc = "returned",
                                 ![c].result = "undefined"]
    /\ UNCHANGED appVars

(***************************************************************************)
(* The connection specification: two calls of testConnection against a     *)
(* database that accepts or refuses each attempt.  Under SpecConnectFair   *)
(* every pending $connect settles and every timer fires, as the event loop *)
(* has it.                                                                 *)
(***************************************************************************)
InitConnect ==
    /\ hotels = InitHotels
    /\ menuItems = InitMenuItems
    /\ stripe = TRUE
    /\ reviews = <<>>
    /\ addresses = <<>>
    /\ nextAddressId = 1
    /\ conn = NoConn
    /\ mailer = "up"
    /\ mail = "none"
    /\ orders = <<>>
    /\ orderItems = <<>>
    /\ nextOrderId = 1
    /\ tx = [p \in Procs |-> NoTx]
    /\ pc = [p \in Procs |-> "idle"]
    /\ req = [p \in Procs |-> NoReq]

ConnectSettles(c) == ConnectResolves(c) \/ ConnectRejects(c)

NextConnect ==
    \E c \in ConnCallers :
        \/ TestConnectionCall(c)
        \/ ConnectResolves(c)
        \/ ConnectRejects(c)
        \/ WaitElapses(c)

SpecConnect == InitConnect /\ [][NextConnect]_vars

SpecConnectFair ==
    /\ InitConnect /\ [][NextConnect]_vars
    /\ \A c \in ConnCallers : WF_vars(ConnectSettles(c)) /\ WF_vars(WaitElapses(c))

(***************************************************************************)
(* The order status machine (spec section 4.5), checked under SpecStatus.  *)
(***************************************************************************)
ValidTransitions ==
    { <<"PENDING", "CONFIRMED">>, <<"CONFIRMED", "PREPARING">>,
      <<"PREPARING", "OUT_FOR_DELIVERY">>, <<"OUT_FOR_DELIVERY", "DELIVERED">>,
      <<"PENDING", "CANCELLED">>, <<"CONFIRMED", "CANCELLED">> }

\* The step in which request p performs its update / its cancel write.
UpdateWrites(p) == pc[p] = "update_write" /\ pc'[p] = "done"
CancelWrites(p) == pc[p] = "cancel_write" /\ pc'[p] = "done"

\* The step in which a cancelOrder request arrives at p and does its read.
CancelStarts(p) ==
    /\ Idle(p)
    /\ <<pc'[p], req'[p]>> # <<pc[p], req[p]>>
    /\ req'[p].op = "cancelOrder"

\* C1: updateOrderStatus applies a change of status only along one of the six
\* valid transitions; for any other pair (current, new) the request is rejected
\* and the order keeps its status.
C1_OnlyValidTransitions ==
    [][\A p \in Procs :
          UpdateWrites(p) /\ <<orders[req[p].orderId].status, req[p].status>> \notin ValidTransitions
              => /\ orders'[req[p].orderId].status = orders[req[p].orderId].status
                 /\ req'[p].resp # "200"]_vars

\* C2: DELIVERED and CANCELLED are terminal: no step changes the status of an
\* order that is DELIVERED or CANCELLED.
C2_TerminalStatusIsFinal ==
    [][\A o \in DOMAIN orders :
          orders[o].status \in {"DELIVERED", "CANCELLED"}
              => orders'[o].status = orders[o].status]_vars

\* C3: in every reachable state a CANCELLED order has paymentStatus REFUNDED.
C3_CancelledIsRefunded ==
    \A o \in DOMAIN orders :
        orders[o].status = "CANCELLED" => orders[o].paymentStatus = "REFUNDED"

\* C4: an order becomes CANCELLED only from PENDING or CONFIRMED, under every
\* interleaving of cancelOrder and updateOrderStatus requests.
C4_CancelledOnlyFromPendingOrConfirmed ==
    [][\A o \in DOMAIN orders :
          orders[o].status # "CANCELLED" /\ orders'[o].status = "CANCELLED"
              => orders[o].status \in {"PENDING", "CONFIRMED"}]_vars

\* The hotel a HOTEL_ADMIN principal administers (prisma/seed.js: the hotel
\* admin of the first hotel).
Administers(u, hotelId) == u = "ha" /\ hotelId = 1

CancelAuthorized(u, order) ==
    \/ u = order.userId
    \/ Role(u) = "ADMIN"
    \/ Role(u) = "HOTEL_ADMIN" /\ Administers(u, order.hotelId)

C6_StaleUpdateIsRejected ==
    [][\A p \in Procs :
          UpdateWrites(p) /\ req[p].read # orders[req[p].orderId].status
              => orders' = orders /\ req'[p].resp # "200"]_vars

(***************************************************************************)
(* Order placement (spec sections 4.3 and 4.4), checked under SpecPlace.   *)
(***************************************************************************)
\* The step in which a createOrder request arrives at p and is validated.
CreateStarts(p) ==
    /\ Idle(p)
    /\ <<pc'[p], req'[p]>> # <<pc[p], req[p]>>
    /\ req'[p].op = "createOrder"

NothingPersisted == UNCHANGED <<orders, orderItems, tx, nextOrderId>>

RECURSIVE SumSubtotals(_)
SumSubtotals(rows) ==
    IF rows = <<>> THEN 0 ELSE Head(rows).subtotal + SumSubtotals(Tail(rows))

\* The menu items of a hotel that are on sale.
AvailableAt(hotelId) ==
    {m \in DOMAIN menuItems : menuItems[m].hotelId = hotelId /\ menuItems[m].isAvailable}

BadLine(line, hotelId) == line.menuItemId \notin AvailableAt(hotelId) \/ line.quantity < 1

\* The subtotal of a cart all of whose lines name menu items: sum of price * quantity.
RECURSIVE CartSubtotal(_)
CartSubtotal(cart) ==
    IF cart = <<>> THEN 0
    ELSE menuItems[Head(cart).menuItemId].price * Head(cart).quantity + CartSubtotal(Tail(cart))

\* A createOrder request of p got as far as committing its order.
Committed(p) ==
    /\ req[p].op = "createOrder"
    /\ pc[p] = "pay" \/ (pc[p] = "done" /\ req[p].resp \in {"201", "500_payment"})

\* C7: order creation is atomic across Order and OrderItem rows: every visible
\* order has at least one item, the orders of the requests at hand have exactly
\* the lines of their carts, no item row is without its order, and a row of an
\* open or rolled-back transaction is not visible.
C7_OrderVisibleOnlyWithItems ==
    /\ \A o \in DOMAIN orders : Len(ItemsOf(orderItems, o)) >= 1
    /\ \A i \in 1..Len(orderItems) : orderItems[i].orderId \in DOMAIN orders
    /\ \A p \in Procs :
          /\ Committed(p) =>
                LET rows == ItemsOf(orderItems, req[p].orderId) IN
                /\ req[p].orderId \in DOMAIN orders
                /\ Len(rows) = Len(req[p].cart)
                /\ \A i \in 1..Len(rows) :
                      /\ rows[i].menuItemId = req[p].cart[i].menuItemId
                      /\ rows[i].quantity = req[p].cart[i].quantity
          /\ \A i \in 1..Len(tx[p].order) : tx[p].order[i].id \notin DOMAIN orders
          /\ pc[p] = "done" /\ req[p].op = "createOrder" /\ req[p].resp = "500_transaction"
                => req[p].orderId \notin DOMAIN orders

\* An order of a two-line cart is visible with both of its items.
C7_Witness ==
    \E p \in Procs :
        /\ Committed(p)
        /\ Len(req[p].cart) = 2
        /\ Len(ItemsOf(orderItems, req[p].orderId)) = 2

\* C8: in integer cents, every committed order's totalAmount is the sum of its
\* items' unitPrice * quantity plus the hotel's deliveryFee, and every item's
\* subtotal is its unitPrice * quantity.
C8_TotalIsItemsPlusDeliveryFee ==
    \A o \in DOMAIN orders :
        LET rows == ItemsOf(orderItems, o) IN
        /\ \A i \in 1..Len(rows) : rows[i].subtotal = rows[i].unitPrice * rows[i].quantity
        /\ orders[o].totalAmount = SumSubtotals(rows) + hotels[orders[o].hotelId].deliveryFee

\* The spec's example: fee 2.99, one line of 6.00 x 2, total 14.99.
C8_Witness ==
    \E o \in DOMAIN orders :
        /\ orders[o].totalAmount = 1499
        /\ hotels[orders[o].hotelId].deliveryFee = 299
        /\ Len(ItemsOf(orderItems, o)) = 1
        /\ ItemsOf(orderItems, o)[1].unitPrice = 600
        /\ ItemsOf(orderItems, o)[1].quantity = 2

\* C9: a cart of sellable lines whose subtotal is below the hotel's
\* minOrderAmount is answered 400 "Minimum order amount" and nothing is
\* persisted; every committed order's item subtotal is at least the minimum.
C9_BelowMinimumIsRejected ==
    /\ [][\A p \in Procs :
            CreateStarts(p) /\ CreateValid(req'[p].cart, req'[p].method)
                            /\ HotelFound(hotels, req'[p].hotelId)
                            /\ (\A i \in 1..Len(req'[p].cart) :
                                   ~BadLine(req'[p].cart[i], req'[p].hotelId))
                            /\ CartSubtotal(req'[p].cart) < hotels[req'[p].hotelId].minOrderAmount
                => pc'[p] = "done" /\ req'[p].resp = "400_minimum" /\ NothingPersisted]_vars
    /\ [](\A o \in DOMAIN orders :
            SumSubtotals(ItemsOf(orderItems, o)) >= hotels[orders[o].hotelId].minOrderAmount)

\* The spec's example: one line of 4.00 x 1 against a minimum of 10.00.
C9_Witness ==
    \E p \in Procs :
        /\ pc[p] = "done" /\ req[p].op = "createOrder" /\ req[p].resp = "400_minimum"
        /\ req[p].cart = <<[menuItemId |-> 2, quantity |-> 1]>>
        /\ hotels[req[p].hotelId].minOrderAmount = 1000
        /\ orders = <<>> /\ orderItems = <<>>

\* C10: a cart with a line whose item is not among the hotel's available items,
\* or whose quantity is below 1, is answered 400 (validation, item or quantity)
\* wherever the line stands in the cart, and nothing is persisted.
C10_BadLineIsRejected ==
    [][\A p \in Procs :
          CreateStarts(p) /\ HotelFound(hotels, req'[p].hotelId)
                          /\ (\E i \in 1..Len(req'[p].cart) :
                                 BadLine(req'[p].cart[i], req'[p].hotelId))
              => /\ pc'[p] = "done"
                 /\ req'[p].resp \in {"400_validation", "400_item", "400_quantity"}
                 /\ NothingPersisted]_vars

\* A cart whose first line sells and whose last line names a switched-off item
\* was rejected.
C10_Witness ==
    \E p \in Procs :
        /\ pc[p] = "done" /\ req[p].op = "createOrder" /\ req[p].resp = "400_item"
        /\ Len(req[p].cart) = 2
        /\ ~BadLine(req[p].cart[1], req[p].hotelId)
        /\ req[p].cart[2].menuItemId = 3
        /\ orders = <<>> /\ orderItems = <<>>

\* C11: a createOrder request that passes validation and names a hotel id that
\* has no hotel row, or whose hotel is inactive, is answered 404 and creates no
\* Order or OrderItem row; every committed order references an active hotel.
C11_MissingOrInactiveHotelIsNotFound ==
    /\ [][\A p \in Procs :
            CreateStarts(p) /\ CreateValid(req'[p].cart, req'[p].method)
                            /\ (req'[p].hotelId \notin DOMAIN hotels
                                   \/ ~hotels[req'[p].hotelId].isActive)
                => pc'[p] = "done" /\ req'[p].resp = "404" /\ NothingPersisted]_vars
    /\ [](\A o \in DOMAIN orders :
            orders[o].hotelId \in DOMAIN hotels /\ hotels[orders[o].hotelId].isActive)

\* A valid order for the inactive hotel 2, or for the hotel id 3 that names no
\* hotel, was answered 404, and no order item was written.
C11_Witness ==
    /\ \E p \in Procs :
          /\ pc[p] = "done" /\ req[p].op = "createOrder" /\ req[p].resp = "404"
          /\ req[p].hotelId \in {2, 3}
          /\ req[p].hotelId \in DOMAIN hotels => ~hotels[req[p].hotelId].isActive
    /\ orderItems = <<>>

(***************************************************************************)
(* Orders and the live catalog, checked under SpecCatalog.                 *)
(***************************************************************************)
\* The step in which the transaction of request p commits.
TxCommits(p) == pc[p] = "tx_commit" /\ pc'[p] = "pay"

\* C12: under every interleaving of createOrder with toggleMenuItemAvailability,
\* updateMenuItem and deleteMenuItem, an order commits only with lines whose
\* menu item is available at commit time and whose unitPrice is the menu item's
\* price at commit time.
C12_CommitsAgainstLiveCatalog ==
    [][\A p \in Procs :
          TxCommits(p)
              => \A i \in 1..Len(tx[p].items) :
                    LET line == tx[p].items[i] IN
                    /\ line.menuItemId \in DOMAIN menuItems
                    /\ menuItems[line.menuItemId].isAvailable
                    /\ line.unitPrice = menuItems[line.menuItemId].price]_vars

\* C13: no step changes the totalAmount of a committed order or the unitPrice
\* or subtotal of one of its lines (nor removes them), whatever the menu item
\* price updates, availability toggles, deletions and hotel deliveryFee or
\* minOrderAmount updates that follow the commit.
C13_CommittedOrderKeepsItsPrices ==
    [][\A o \in DOMAIN orders :
          /\ o \in DOMAIN orders'
          /\ orders'[o].totalAmount = orders[o].totalAmount
          /\ ItemsOf(orderItems', o) = ItemsOf(orderItems, o)]_vars

\* A committed order still carries the unit price 6.00 and the total 14.99
\* after its item was repriced and switched off and the hotel's delivery fee and
\* minimum were raised.
C13_Witness ==
    \E o \in DOMAIN orders :
        /\ orders[o].totalAmount = 1499
        /\ ItemsOf(orderItems, o)[1].unitPrice = 600
        /\ ItemsOf(orderItems, o)[1].subtotal = 1200
        /\ menuItems[1].price = 650 /\ ~menuItems[1].isAvailable
        /\ hotels[1].deliveryFee = 349 /\ hotels[1].minOrderAmount = 1300

(***************************************************************************)
(* Reviews (spec section 4.5), checked under SpecReview.                   *)
(***************************************************************************)
\* The step in which a submitReview request arrives at p and reads the order.
ReviewStarts(p) ==
    /\ Idle(p)
    /\ <<pc'[p], req'[p]>> # <<pc[p], req[p]>>
    /\ req'[p].op = "submitReview"

\* C18: a submitReview request goes on to create a review only if the order it
\* names is DELIVERED and belongs to the caller when the handler reads it;
\* otherwise it is answered 404, no review is created and the hotel's rating and
\* totalReviews stay as they are.  Every review row names an order of the
\* review's user.
C18_ReviewNeedsOwnDeliveredOrder ==
    /\ [][\A p \in Procs :
            ReviewStarts(p)
                => IF /\ req'[p].orderId \in DOMAIN orders
                      /\ orders[req'[p].orderId].status = "DELIVERED"
                      /\ orders[req'[p].orderId].userId = req'[p].caller
                   THEN pc'[p] = "review_check"
                   ELSE /\ pc'[p] = "done" /\ req'[p].resp = "404"
                        /\ UNCHANGED <<reviews, hotels>>]_vars
    /\ [][reviews' # reviews
            => \E p \in Procs : pc[p] = "review_create" /\ pc'[p] = "review_aggregate"]_vars
    /\ [](\A i \in 1..Len(reviews) :
            /\ reviews[i].orderId \in DOMAIN orders
            /\ orders[reviews[i].orderId].userId = reviews[i].userId)

\* The owner has reviewed the delivered order, and a review attempt on an order
\* that was not DELIVERED was answered 404.
C18_Witness ==
    /\ Len(reviews) >= 1
    /\ \E p \in Procs :
          /\ pc[p] = "done" /\ req[p].op = "submitReview" /\ req[p].resp = "404"
          /\ req[p].orderId \in DOMAIN orders
          /\ req[p].caller = orders[req[p].orderId].userId
          /\ orders[req[p].orderId].status # "DELIVERED"

\* C19: in every reachable state there is at most one review per (order, user)
\* pair, also when two submitReview requests for the pair run concurrently;
\* the request that comes second is rejected and creates nothing.
C19_OneReviewPerOrderAndUser ==
    \A i, j \in 1..Len(reviews) :
        reviews[i].orderId = reviews[j].orderId /\ reviews[i].userId = reviews[j].userId
            => i = j

(***************************************************************************)
(* The order after its creation, checked under SpecLife.                   *)
(***************************************************************************)
FrozenOrderFields == {"orderNumber", "userId", "hotelId", "totalAmount", "deliveryAddress"}

\* C14: no step (of updateOrderStatus, cancelOrder, submitReview or the payment
\* processing of createOrder) removes a committed order or changes its
\* orderNumber, userId, hotelId, totalAmount, deliveryAddress or its order
\* items; what changes of an order is confined to status, deliveryNotes and
\* paymentStatus.
C14_OnlyStatusNotesAndPaymentStatusChange ==
    [][\A o \in DOMAIN orders :
          /\ o \in DOMAIN orders'
          /\ \A f \in DOMAIN orders[o] \ {"status", "deliveryNotes", "paymentStatus"} :
                orders'[o][f] = orders[o][f]
          /\ FrozenOrderFields \subseteq DOMAIN orders[o]
          /\ ItemsOf(orderItems', o) = ItemsOf(orderItems, o)]_vars

\* The order has been paid for, updated with a delivery note, reviewed and
\* cancelled, and still has its number, owner, hotel, total, address and line.
C14_Witness ==
    \E o \in DOMAIN orders :
        /\ orders[o].status = "CANCELLED" /\ orders[o].paymentStatus = "REFUNDED"
        /\ orders[o].deliveryNotes = "gate B"
        /\ Len(reviews) >= 1
        /\ orders[o].totalAmount = 1499 /\ orders[o].userId = "u1" /\ orders[o].hotelId = 1
        /\ orders[o].deliveryAddress = DeliveryAddress
        /\ Len(ItemsOf(orderItems, o)) = 1

\* The step in which request p, its order committed, dispatches the
\* notifications, processes the payment and responds.
PaymentStep(p) == pc[p] = "pay" /\ pc'[p] = "done"

\* C16: whatever becomes of the confirmation and hotel notifications, the step
\* that dispatches them leaves the committed order and its items as they are
\* and answers as the payment alone decides (201 unless the payment throws);
\* whatever becomes of the status notification, the status update is applied
\* and answered 200.
C16_NotificationFailureIsSwallowed ==
    [][\A p \in Procs :
          /\ PaymentStep(p)
                => /\ req[p].orderId \in DOMAIN orders
                   /\ orders' = orders /\ orderItems' = orderItems
                   /\ req'[p].resp = IF req[p].method = "CARD" /\ ~stripe
                                     THEN "500_payment" ELSE "201"
          /\ UpdateWrites(p)
                => /\ req'[p].resp = "200"
                   /\ orders'[req[p].orderId].status = req[p].status]_vars

\* With the message templates throwing, the order was placed and answered 201
\* and its status update to CONFIRMED was applied and answered 200.
C16_Witness ==
    /\ mailer = "throws" /\ mail = "rejected"
    /\ pc["r1"] = "done" /\ req["r1"].op = "createOrder" /\ req["r1"].resp = "201"
    /\ pc["r2"] = "done" /\ req["r2"].op = "updateOrderStatus" /\ req["r2"].resp = "200"
    /\ req["r1"].orderId \in DOMAIN orders
    /\ orders[req["r1"].orderId].status = "CONFIRMED"

(***************************************************************************)
(* Failures of order placement, checked under SpecPlace.                   *)
(***************************************************************************)
\* C15: createOrder reports a failure only when no order of the request is
\* visible: once the order and its items are committed the caller gets the 201
\* with the order, also when the payment initiation fails or throws.
C15_FailureOnlyWithoutVisibleOrder ==
    \A p \in Procs :
        pc[p] = "done" /\ req[p].op = "createOrder" /\ req[p].orderId \in DOMAIN orders
            => req[p].resp = "201"

Searched(p) == pc[p] = "done" /\ req[p].op = "getNearbyHotels" /\ req[p].resp = "200"

Qualifies(p, id) ==
    /\ hotels[id].isActive
    /\ ~Falsy(hotels[id].latitude) /\ ~Falsy(hotels[id].longitude)
    /\ hotels[id].longitude = req[p].longitude
    /\ Abs(hotels[id].latitude - req[p].latitude) <= RadiusOrDefault(req[p].radius) * 10
    /\ Abs(hotels[id].latitude - req[p].latitude) <= hotels[id].deliveryRadius * 10

Returned(p) == {req[p].found[i].id : i \in 1..Len(req[p].found)}

BadCoordinate(r) ==
    \/ r.latitude = Undefined \/ r.latitude < -MaxLatitude \/ r.latitude > MaxLatitude
    \/ r.longitude = Undefined \/ r.longitude < -MaxLongitude \/ r.longitude > MaxLongitude

BadRadius(r) == r.radius # Undefined /\ (r.radius < 500 \/ r.radius > 10000)

\* C22: a search whose latitude is absent or outside [-90, 90] degrees, or
\* whose longitude is absent or outside [-180, 180], is answered 400 with no
\* result; every other search with an acceptable radius is answered 200, a
\* latitude or longitude of 0 and a search that matches no hotel (an empty
\* list) included.
C22_BadCoordinateRefusedEmptyResultAccepted ==
    \A p \in Procs :
        pc[p] = "done" /\ req[p].op = "getNearbyHotels" =>
            /\ BadCoordinate(req[p]) => req[p].resp = "400_validation" /\ req[p].found = <<>>
            /\ ~BadCoordinate(req[p]) /\ ~BadRadius(req[p]) => req[p].resp = "200"

\* A search from the equator on the prime meridian was answered 200 with an
\* empty list.
C22_Witness ==
    \E p \in Procs :
        /\ Searched(p)
        /\ req[p].latitude = 0 /\ req[p].longitude = 0
        /\ req[p].found = <<>>

\* A hotel the search of p must return: active, inside the bounding box of
\* the query, its coordinate set (0 is a coordinate), and no farther from the
\* query point than its own delivery radius.
MustAppear(p, id) ==
    /\ hotels[id].isActive
    /\ hotels[id].latitude # Undefined /\ hotels[id].longitude # Undefined
    /\ hotels[id].longitude = req[p].longitude
    /\ Abs(hotels[id].latitude - req[p].latitude) <= RadiusOrDefault(req[p].radius) * 10
    /\ Abs(hotels[id].latitude - req[p].latitude) <= hotels[id].deliveryRadius * 10

\* C24: every active hotel inside the bounding box whose coordinate is set (a
\* latitude or longitude of 0 included) and whose distance is at most its
\* deliveryRadius is in the result of the search, unless the result was cut
\* at 20 entries.
C24_EveryDeliverableHotelAppears ==
    \A p \in Procs :
        Searched(p) /\ Len(req[p].found) < MaxResults =>
            \A id \in DOMAIN hotels : MustAppear(p, id) => id \in Returned(p)

\* ceil(distance / 500 * 10 + 20) for a whole number of metres.
CeilEstimate(metres) == (metres + 49) \div 50 + 20

\* C25: every returned hotel carries estimatedDeliveryTime = ceil(distance /
\* 500 * 10 + 20) for the distance in metres it is returned with, so that the
\* estimate is never below distance / 50 + 20.
C25_EstimateIsCeiling ==
    \A p \in Procs :
        Searched(p) =>
            \A i \in 1..Len(req[p].found) :
                /\ req[p].found[i].estimatedDeliveryTime = CeilEstimate(req[p].found[i].distance)
                /\ req[p].found[i].estimatedDeliveryTime * 50
                      >= req[p].found[i].distance + 20 * 50

\* C23: the order a createOrder transaction commits has status PENDING and
\* paymentStatus PENDING whichever of CASH, CARD and MOBILE_MONEY it is paid
\* with, the payment step that follows leaves it so whether the payment
\* succeeds or throws, and a request naming any other payment method is
\* answered 400 with no row created.
C23_NewOrderIsPendingPending ==
    [][\A p \in Procs :
          /\ TxCommits(p)
                => /\ req[p].orderId \in DOMAIN orders'
                   /\ orders'[req[p].orderId].status = "PENDING"
                   /\ orders'[req[p].orderId].paymentStatus = "PENDING"
                   /\ orders'[req[p].orderId].paymentMethod \in PaymentMethods
          /\ PaymentStep(p)
                => /\ orders' = orders
                   /\ orders[req[p].orderId].status = "PENDING"
                   /\ orders[req[p].orderId].paymentStatus = "PENDING"
          /\ CreateStarts(p) /\ req'[p].method \notin PaymentMethods \cup {Null}
                => pc'[p] = "done" /\ req'[p].resp = "400_validation" /\ NothingPersisted]_vars

\* An order paid by card was committed, its payment threw, and the order is
\* PENDING / PENDING.
C23_Witness ==
    \E p \in Procs :
        /\ pc[p] = "done" /\ req[p].op = "createOrder" /\ req[p].resp = "500_payment"
        /\ req[p].orderId \in DOMAIN orders
        /\ orders[req[p].orderId].paymentMethod = "CARD"
        /\ orders[req[p].orderId].status = "PENDING"
        /\ orders[req[p].orderId].paymentStatus = "PENDING"

\* The step in which an updateOrderStatus request arrives at p and is
\* authorized.
UpdateStarts(p) ==
    /\ Idle(p)
    /\ <<pc'[p], req'[p]>> # <<pc[p], req[p]>>
    /\ req'[p].op = "updateOrderStatus"

UpdateDenied(p) ==
    /\ pc'[p] = "done" /\ req'[p].resp \in {"403_role", "403_hotel"}
    /\ UNCHANGED <<orders, mail>>

UpdateLetThrough(p) ==
    \/ pc'[p] = "update_write"
    \/ pc'[p] = "done" /\ req'[p].resp = "400_validation"

\* C26: an updateOrderStatus request for an order that exists is let through
\* (to the write, or to the 400 of a status outside the enumeration) when the
\* caller is an ADMIN or the HOTEL_ADMIN who administers the order's hotel; from
\* a HOTEL_ADMIN of another hotel it is answered 403 (or that 400), from a USER
\* always 403, and either answer leaves the order as it is and sends no
\* notification.
C26_HotelAdminUpdatesOwnHotelOnly ==
    [][\A p \in Procs :
          UpdateStarts(p) /\ req'[p].orderId \in DOMAIN orders
              => LET caller == req'[p].caller
                     order == orders[req'[p].orderId]
                 IN  /\ Role(caller) = "ADMIN" => UpdateLetThrough(p)
                     /\ Role(caller) = "HOTEL_ADMIN" /\ Administers(caller, order.hotelId)
                           => UpdateLetThrough(p)
                     /\ Role(caller) = "HOTEL_ADMIN" /\ ~Administers(caller, order.hotelId)
                           => pc'[p] = "done" /\ UNCHANGED <<orders, mail>>
                     /\ Role(caller) = "USER" => UpdateDenied(p)]_vars

(***************************************************************************)
(* Orders and the hotels' menus, checked under SpecMenus.                  *)
(***************************************************************************)
\* C27: every item row of every committed order references a menu item that
\* belongs to the order's hotel, and a createOrder request with a cart line
\* naming a menu item of another hotel is answered 400 with nothing
\* persisted.
C27_OrderItemsAreOfTheOrdersHotel ==
    /\ [](\A i \in 1..Len(orderItems) :
             /\ orderItems[i].orderId \in DOMAIN orders
             /\ orderItems[i].menuItemId \in DOMAIN menuItems
             /\ menuItems[orderItems[i].menuItemId].hotelId
                   = orders[orderItems[i].orderId].hotelId)
    /\ [][\A p \in Procs :
            CreateStarts(p) /\ HotelFound(hotels, req'[p].hotelId)
                            /\ (\E i \in 1..Len(req'[p].cart) :
                                   /\ req'[p].cart[i].menuItemId \in DOMAIN menuItems
                                   /\ menuItems[req'[p].cart[i].menuItemId].hotelId
                                         # req'[p].hotelId)
                => pc'[p] = "done" /\ req'[p].resp = "400_item" /\ NothingPersisted]_vars

(***************************************************************************)
(* The hotel's aggregate rating, checked under SpecRatings.                *)
(***************************************************************************)
\* C28: whenever no submitReview request is in flight, every hotel's
\* totalReviews is the number of reviews stored for it and its rating is
\* their average, for reviews of different orders of one hotel submitted at
\* the same time.
C28_AggregateMatchesStoredReviews ==
    (\A p \in Procs : Idle(p)) =>
        \A h \in DOMAIN hotels :
            /\ hotels[h].totalReviews = AggregateReviews(reviews, h).count
            /\ hotels[h].rating = AggregateReviews(reviews, h).avg

(***************************************************************************)
(* The address book, checked under SpecAddresses.                          *)
(***************************************************************************)
DefaultsOf(rows, u) == {a \in DOMAIN rows : rows[a].userId = u /\ rows[a].isDefault}

\* The step in which a deleteUserAddress request of p that removed the
\* user's default address responds.
DeleteOfDefaultCompletes(p) ==
    /\ req[p].op = "deleteUserAddress" /\ req[p].wasDefault
    /\ pc[p] \in {"address_find", "address_promote"}
    /\ pc'[p] = "done"

\* C29: in every reachable state a user has at most one address with
\* isDefault = true, whatever addUserAddress, updateUserAddress and
\* deleteUserAddress requests of that user ran and however they interleaved;
\* and when a deleteUserAddress that removed the user's default address
\* responds and the user still has addresses, exactly one of them is default.
C29_AtMostOneDefaultAddress ==
    /\ [](\A u \in Users : Cardinality(DefaultsOf(addresses, u)) <= 1)
    /\ [][\A p \in Procs :
            DeleteOfDefaultCompletes(p)
                /\ (\E a \in DOMAIN addresses' : addresses'[a].userId = req[p].caller)
                => Cardinality(DefaultsOf(addresses', req[p].caller)) = 1]_vars

(***************************************************************************)
(* testConnection, checked under SpecConnectFair.                          *)
(***************************************************************************)
HasReturned(c) == conn[c].pc = "returned"

\* C30: a call of testConnection makes at most 5 connection attempts and
\* returns: true from the first attempt that succeeds (every attempt before
\* it failed and was followed by a wait), false from the 5th failure in a row
\* with no wait after it (4 waits in all), and never undefined; once it has
\* returned it attempts nothing more; and every call that was made returns.
C30_TestConnectionTerminates ==
    /\ [](\A c \in ConnCallers :
            /\ conn[c].attempts <= 5
            /\ HasReturned(c) => conn[c].result \in {"true", "false"}
            /\ HasReturned(c) /\ conn[c].result = "true" => conn[c].waits = conn[c].attempts - 1
            /\ HasReturned(c) /\ conn[c].result = "false"
                  => conn[c].attempts = 5 /\ conn[c].waits = 4)
    /\ [][\A c \in ConnCallers :
            /\ HasReturned(c) => conn'[c] = conn[c]
            /\ conn'[c].attempts # conn[c].attempts /\ conn[c].attempts = 4
                  => conn'[c].pc = "returned"]_vars
    /\ \A c \in ConnCallers : (conn[c].pc # "idle") ~> HasReturned(c)

\* One call returned false after five failed attempts and four waits, the
\* other returned true from its third attempt.
C30_Witness ==
    \E c, d \in ConnCallers :
        /\ conn[c].pc = "returned" /\ conn[c].result = "false"
        /\ conn[c].attempts = 5 /\ conn[c].waits = 4
        /\ conn[d].pc = "returned" /\ conn[d].result = "true"
        /\ conn[d].attempts = 3 /\ conn[d].waits = 2

====
